---- MODULE Spec2Model ----
(***************************************************************************)
(* Polingo front end (App component): the practice-session state of the    *)
(* single top-level React component, its handlers and their asynchronous   *)
(* completions.  A handler that awaits a fetch is split at the await: the  *)
(* call step issues the request and keeps the values its closure captured, *)
(* the completion step applies the response.  A state change that is a     *)
(* dependency of a useEffect runs that effect in the same step.            *)
(***************************************************************************)
EXTENDS Integers, Sequences, FiniteSets, Bags, TLC

(* ------------------------------ bounds --------------------------------- *)

\* Largest session pool the server returns.
MaxPool == 2

\* Most submit/skip requests in flight at once.
MaxInflight == 1

\* Most starter-set loads in flight at once.
MaxLoads == 1

\* Most stale auto-hide timers (no longer referenced by a timeout ref) pending per channel.
MaxOrphans == 1

\* Most question fetches in flight at once.
MaxFetches == 1

\* Most submit/skip clicks of the learner in a behaviour that is checked for liveness.
MaxCalls == 2

\* Largest word id and longest array handed to shuffleArray on its own.
MaxItem == 4

MaxArray == 3

\* Most capture streams live at once.
MaxStreams == 2

\* Longest text handed to renderSpellingDiff on its own.
MaxText == 3

(* ------------------------------ values --------------------------------- *)

Pages == {"home", "add", "translation", "writing", "pronunciation", "endings"}

Languages == {"english", "ukrainian"}

\* Identifiers of vocabulary items.
WordIds == 1..MaxPool

\* Word lists a session response can carry: words[] of GET session, POST session/words/bulk.
ServerPools == {[i \in 1..n |-> i] : n \in 0..MaxPool}

\* Statistics payloads of the server (opaque to the client).
StatsValues == {"s1", "s2"}

\* Values of the answer input: strings as sequences of characters.
Answers == {<<>>, <<" ">>, <<"a">>}

\* Values of the entry inputs of the add page; a comma makes a bulk entry.
Entries == {<<>>, <<" ">>, <<"a">>, <<" ", "a">>, <<"a", ",", "a">>}

\* Verb lists a verbs/session response can carry.
VerbPools == {<<>>, <<1>>}

\* Counts of a words/check/bulk response.
BulkPayloads == [added_count : 0..1, duplicate_count : 0..1]

\* Payloads of a verbs/add response.
VerbPayloads == [success : BOOLEAN, duplicate : BOOLEAN, verb : BOOLEAN]

NoPayload == "null"

\* useState(null)
NoStatus == [type |-> "none", message |-> "none"]

NoAnswer == [userAnswer |-> <<>>, correctAnswer |-> <<>>, wasCorrect |-> FALSE,
             direction |-> "none", skipped |-> FALSE]

\* payload.correct_answer of the validate and skip responses.
CorrectAnswer == <<"a">>

NoWord == 0

NoStats == "null"

NoQuestion == "null"

\* useRef(null); a MediaRecorder is its state and the word of the render that made it.
NoRecorder == [state |-> "none", word |-> NoWord]

\* Payloads of GET verbs/question (opaque to the client).
Questions == {"q1", "q2"}

\* runCount while requests older than the last effect run are in flight.
Dirty == 0 - 1

(* --------------------------- pure functions ---------------------------- *)

IsSpace(c) == c = " "

RECURSIVE TrimStart(_)
TrimStart(s) == IF s # <<>> /\ IsSpace(Head(s)) THEN TrimStart(Tail(s)) ELSE s

RECURSIVE TrimEnd(_)
TrimEnd(s) ==
  IF s # <<>> /\ IsSpace(s[Len(s)]) THEN TrimEnd(SubSeq(s, 1, Len(s) - 1)) ELSE s

NoTrim(s) == s

\* String.prototype.trim
Trim(s) == TrimEnd(TrimStart(s))

SwapOverwrites(a, i, j) == [a EXCEPT ![i] = a[j]]

\* [a[i], a[j]] = [a[j], a[i]] on 1-based positions
Swap(a, i, j) == [a EXCEPT ![i] = a[j], ![j] = a[i]]

\* The draws of Math.floor(Math.random() * (i + 1)) for i = n-1 .. 1 (0-based i).
Draws(n) == [1..(n - 1) -> 0..(n - 1)]

DrawsOk(n, d) == \A i \in 1..(n - 1) : d[i] <= i

RECURSIVE FisherYates(_, _, _)
FisherYates(a, i, d) ==
  IF i > 0 THEN FisherYates(Swap(a, i + 1, d[i] + 1), i - 1, d) ELSE a

\* Every result shuffleArray(array) can return.
shuffleArray(array) ==
  {FisherYates(array, Len(array) - 1, d) : d \in {e \in Draws(Len(array)) : DrawsOk(Len(array), e)}}

Range(s) == {s[i] : i \in 1..Len(s)}

\* String.prototype.includes for one character
Includes(s, c) == \E i \in 1..Len(s) : s[i] = c

\* The characters of the texts handed to renderSpellingDiff on its own.
DiffChars == {"k", "K", "o", "t", "d"}

Texts == UNION {[1..n -> DiffChars] : n \in 0..MaxText}

keepCase(ch) == ch

\* String.prototype.toLowerCase on one character
toLowerCase(ch) == IF ch = "K" THEN "k" ELSE ch

\* text[i] || '' with a 0-based i
CharAt(text, i) == IF i < Len(text) THEN text[i + 1] ELSE ""

Max(a, b) == IF a >= b THEN a ELSE b

\* A span of the result: its class, its character and the position in its key.
Marker(class, ch, i) == [class |-> class, char |-> ch, key |-> i]

DiffStepUnguarded(result, userAnswer, correctAnswer, i) ==
  IF toLowerCase(CharAt(userAnswer, i)) # toLowerCase(CharAt(correctAnswer, i))
  THEN LET afterIncorrect ==
             Append(result, Marker("char-incorrect", CharAt(userAnswer, i), i))
       IN  IF CharAt(userAnswer, i) = "" /\ CharAt(correctAnswer, i) # ""
           THEN Append(afterIncorrect, Marker("char-missing", CharAt(correctAnswer, i), i))
           ELSE afterIncorrect
  ELSE Append(result, Marker("char-correct", CharAt(userAnswer, i), i))

\* The body of the loop of renderSpellingDiff for one i: result after its pushes.
DiffStep(result, userAnswer, correctAnswer, i) ==
  IF toLowerCase(CharAt(userAnswer, i)) # toLowerCase(CharAt(correctAnswer, i))
  THEN LET afterIncorrect ==
             IF CharAt(userAnswer, i) # ""
             THEN Append(result, Marker("char-incorrect", CharAt(userAnswer, i), i))
             ELSE result
       IN  IF CharAt(userAnswer, i) = "" /\ CharAt(correctAnswer, i) # ""
           THEN Append(afterIncorrect, Marker("char-missing", CharAt(correctAnswer, i), i))
           ELSE afterIncorrect
  ELSE Append(result, Marker("char-correct", CharAt(userAnswer, i), i))

RECURSIVE DiffLoop(_, _, _, _)
DiffLoop(result, userAnswer, correctAnswer, i) ==
  IF i < Max(Len(userAnswer), Len(correctAnswer))
  THEN DiffLoop(DiffStep(result, userAnswer, correctAnswer, i), userAnswer,
                correctAnswer, i + 1)
  ELSE result

renderSpellingDiff(userAnswer, correctAnswer) == DiffLoop(<<>>, userAnswer, correctAnswer, 0)

(* ------------------------------- state --------------------------------- *)

VARIABLES
  activePage,          \* useState("home")
  languageSet,         \* useState("english")
  wordPool,            \* useState([]): word ids in server order
  shuffledWords,       \* useState([])
  practiceIndex,       \* useState(0)
  answer,              \* useState("")
  practiceStatus,      \* useState(null)
  lastAnswer,          \* useState(null)
  stats,               \* useState(null)
  manualStatus,        \* useState(null)
  manualEntry,         \* useState("")
  addMode,             \* useState("words")
  verbEntry,           \* useState("")
  verbStatus,          \* useState(null)
  verbLoading,         \* useState(false)
  verbPool,            \* useState([]): verb ids in server order
  practiceTimer,       \* practiceStatusTimeoutRef and the timeouts it has scheduled
  pronunciationStatus, \* useState(null)
  pronunciationIndex,  \* useState(0)
  pronunciationTimer,  \* pronunciationStatusTimeoutRef and the timeouts it has scheduled
  isRecording,         \* useState(false)
  mediaRecorderRef,    \* useRef(null): the MediaRecorder last created
  streams,             \* number of getUserMedia streams whose tracks have not been stopped
  endingsQuestion,     \* useState(null)
  endingsStatus,       \* useState(null)
  endingsStats,        \* useState(null)
  endingsTimer,        \* endingsStatusTimeoutRef and the timeouts it has scheduled
  boot,                \* fetches of the mount effect that have not completed
  inflight,            \* bag of requests of handlers that have not completed
  lastOp,              \* history: "handlePracticeSubmit" when the last step was a call of it
  visited,             \* history: words a submit/skip was issued for since the last mode-entry effect
  runStart,            \* history: cursor when the current run of advances began
  runCount             \* history: advances of the current run

pronVars == <<pronunciationStatus, pronunciationIndex, pronunciationTimer, isRecording,
              mediaRecorderRef, streams>>

endingsVars == <<endingsQuestion, endingsStatus, endingsStats, endingsTimer>>

\* The entries of the add page, manualStatus apart.
addVars == <<manualEntry, addMode, verbEntry, verbStatus, verbLoading, verbPool>>

vars == <<activePage, languageSet, wordPool, shuffledWords, practiceIndex, answer,
          practiceStatus, lastAnswer, stats, manualStatus, addVars, practiceTimer, pronVars,
          endingsVars, boot, inflight, lastOp, visited, runStart, runCount>>

(* --------------------------- derived values ---------------------------- *)

WordPagesNoPronounce == {"translation", "writing"}

\* The pages whose entry shuffles the pool (line 116).
WordPages == {"translation", "writing", "pronunciation"}

practiceDirection ==
  IF activePage = "translation" THEN "translation"
  ELSE IF activePage = "writing" THEN "writing" ELSE "none"

\* What an index past the end of an array yields.
Undefined == 0 - 2

\* array[index] with a 0-based index
ElementAt(array, index) ==
  IF index < Len(array) THEN array[index + 1] ELSE Undefined

currentWordNoModulo ==
  IF practiceDirection # "none" /\ Len(shuffledWords) > 0
  THEN ElementAt(shuffledWords, practiceIndex)
  ELSE NoWord

currentWord ==
  IF practiceDirection # "none" /\ Len(shuffledWords) > 0
  THEN ElementAt(shuffledWords, practiceIndex % Len(shuffledWords))
  ELSE NoWord

currentPronunciationWord ==
  IF activePage = "pronunciation" /\ Len(shuffledWords) > 0
  THEN ElementAt(shuffledWords, pronunciationIndex % Len(shuffledWords))
  ELSE NoWord

NoCurrentItemIgnored == FALSE

\* if (!currentWord || !practiceDirection) return;
NoCurrentItem == currentWord = NoWord \/ practiceDirection = "none"

\* The view's condition for the spelling-diff paragraph of the answer details.
spellingDiffRendered ==
  /\ lastAnswer # NoAnswer
  /\ ~lastAnswer.wasCorrect
  /\ lastAnswer.direction = "writing"
  /\ lastAnswer.userAnswer # <<>>
  /\ ~lastAnswer.skipped

\* A request in flight with what the issuing closure captured: kind names the fetch
\* that is awaited.
Request(kind, word, direction, text, len) ==
  [kind |-> kind, word |-> word, direction |-> direction, answer |-> text, len |-> len]

\* fetchEndingsQuestion up to its await.
QuestionRequest == [kind |-> "verbs/question"]

Issue(b, r) == b (+) SetToBag({r})

Resend(b, r) == b

\* The request r has settled.
Retire(b, r) == b (-) SetToBag({r})

PracticeKinds == {"practice/validate", "practice/skip"}

\* Submit and skip requests in the bag b.
PracticeInflight(b) == {r \in BagToSet(b) : r.kind \in PracticeKinds}

(* ------------------------------ timers --------------------------------- *)

\* live: the timeout the ref names is pending; orphans: pending timeouts the ref no longer names.
NoTimer == [live |-> FALSE, orphans |-> 0]

\* if (ref.current) clearTimeout(ref.current)
ClearTimer(t) == [t EXCEPT !.live = FALSE]

\* ref.current = setTimeout(...)
SetTimer(t) == [live |-> TRUE, orphans |-> IF t.live THEN t.orphans + 1 ELSE t.orphans]

(* ------------------------------ statuses ------------------------------- *)

Status(type, message) == [type |-> type, message |-> message]

EmptyAnswerStatus == Status("error", "Try answering before submitting.")

CorrectStatus == Status("success", "Correct! Keep going.")

WrongStatus == Status("error", "The correct answer is ...")

SubmitFailedStatus == Status("error", "Progress could not be recorded. Try again.")

SkippedStatus == Status("info", "Skipped. The answer was:")

SkipFailedStatus == Status("error", "Could not skip. Try again.")

NoVerbsStatus == Status("error", "Add verbs to your session first.")

EndingsCorrectStatus == Status("success", "Correct! Well done.")

EndingsWrongStatus == Status("error", "Incorrect. The answer was ...")

EndingsFailedStatus == Status("error", "Could not validate answer.")

EndingsSkippedStatus == Status("info", "Skipped. The answer was ...")

RecordingStatus == Status("info", "Recording... Click Stop when done.")

MicrophoneFailedStatus == Status("error", "Could not access microphone.")

ProcessingStatus == Status("info", "Processing your pronunciation...")

PronunciationCorrectStatus == Status("success", "Correct! You said ...")

PronunciationWrongStatus == Status("error", "You said ... Expected ...")

PronunciationFailedStatus == Status("error", "Could not validate pronunciation. Please try again.")

PronunciationSkippedStatus == Status("info", "Skipped. The word was ...")

StarterLoadedStatus == Status("success", "Loaded and saved the first 10 words.")

StarterFailedStatus == Status("error", "Could not reach the starter set. Try again.")

EmptyEntryStatus == Status("error", "Type a word or phrase to validate it.")

WordNotFoundStatus ==
  Status("error", "Word not found. Please double-check spelling or try a different form.")

WordSavedStatus == Status("success", "Saved ...")

ManualFailedStatus ==
  Status("error", "Something went wrong talking to the database. Try again in a moment.")

\* The status of a bulk entry: its type from the counts of the response.
BulkStatus(payload) ==
  Status(IF payload.added_count > 0 THEN "success"
         ELSE IF payload.duplicate_count > 0 THEN "info" ELSE "error",
         "Added ... already in session ... could not be found.")

EmptyVerbStatus == Status("error", "Type a verb to add.")

\* payload.message of a verbs/add response without success.
VerbRejectedStatus == Status("error", "payload.message")

VerbAddedStatus(payload) ==
  Status(IF payload.duplicate THEN "info" ELSE "success", "payload.message (...)")

VerbFailedStatus == Status("error", "Could not add verb. Try again.")

(* ------------------------------ effects -------------------------------- *)

ModeEffectKeepsOrder(page, pool, bag) ==
  /\ answer' = <<>>
  /\ practiceStatus' = NoStatus
  /\ practiceIndex' = 0
  /\ pronunciationStatus' = NoStatus
  /\ pronunciationIndex' = 0
  /\ endingsStatus' = NoStatus
  /\ endingsQuestion' = NoQuestion
  /\ lastAnswer' = NoAnswer
  /\ UNCHANGED shuffledWords
  /\ inflight' = IF page = "endings" THEN Issue(bag, QuestionRequest) ELSE bag
  /\ UNCHANGED <<endingsStats, endingsTimer, pronunciationTimer, isRecording,
                 mediaRecorderRef, streams>>

\* useEffect(..., [activePage, languageSet, wordPool]) after a render with the given
\* activePage and wordPool; bag is inflight as the triggering step leaves it.  The effect
\* of [wordPool.length] (setPracticeIndex(0) on an empty pool) runs in the same commit and
\* is subsumed by setPracticeIndex(0) here.
ModeEffect(page, pool, bag) ==
  /\ answer' = <<>>
  /\ practiceStatus' = NoStatus
  /\ practiceIndex' = 0
  /\ pronunciationStatus' = NoStatus
  /\ pronunciationIndex' = 0
  /\ endingsStatus' = NoStatus
  /\ endingsQuestion' = NoQuestion
  /\ lastAnswer' = NoAnswer
  /\ IF page \in WordPages
     THEN shuffledWords' \in shuffleArray(pool)
     ELSE UNCHANGED shuffledWords
  /\ inflight' = IF page = "endings" THEN Issue(bag, QuestionRequest) ELSE bag
  /\ UNCHANGED <<endingsStats, endingsTimer, pronunciationTimer, isRecording,
                 mediaRecorderRef, streams>>

(* ------------------------------ navigation ----------------------------- *)

\* The nav cards of the home page and the "Back to main" buttons.
setActivePage(p) ==
  /\ p # activePage
  /\ activePage = "home" \/ p = "home"
  /\ activePage' = p
  /\ ModeEffect(p, wordPool, inflight)
  /\ UNCHANGED <<languageSet, wordPool, stats, manualStatus, addVars, practiceTimer, boot>>

\* The language select of the home page: setLanguageSet, then PUT session/language.
handleLanguageChange(value) ==
  /\ activePage = "home"
  /\ value # languageSet
  /\ languageSet' = value
  /\ ModeEffect(activePage, wordPool,
                Issue(inflight, Request("session/language", NoWord, "none", <<>>, 0)))
  /\ UNCHANGED <<activePage, wordPool, stats, manualStatus, addVars, practiceTimer, boot>>

handleLanguageChangeDoneRollsBack(r, outcome) ==
  /\ r \in BagToSet(inflight)
  /\ r.kind = "session/language"
  /\ inflight' = Retire(inflight, r)
  /\ languageSet' = IF outcome = "ok" THEN languageSet ELSE "english"
  /\ manualStatus' = IF outcome = "ok" THEN manualStatus ELSE StarterFailedStatus
  /\ UNCHANGED <<activePage, wordPool, shuffledWords, practiceIndex, answer,
                 practiceStatus, lastAnswer, stats, addVars, practiceTimer, boot>>
  /\ UNCHANGED <<pronVars, endingsVars>>

\* The PUT settles: its response is not read (whatever its status) and a thrown error is
\* only logged.
handleLanguageChangeDone(r, outcome) ==
  /\ r \in BagToSet(inflight)
  /\ r.kind = "session/language"
  /\ outcome \in {"ok", "status", "throw"}
  /\ inflight' = Retire(inflight, r)
  /\ UNCHANGED <<activePage, languageSet, wordPool, shuffledWords, practiceIndex, answer,
                 practiceStatus, lastAnswer, stats, manualStatus, addVars, practiceTimer, boot>>
  /\ UNCHANGED <<pronVars, endingsVars>>

(* ------------------------------ mount fetches -------------------------- *)

Outcomes == {"ok", "status", "throw"}

fetchStatsDone(outcome, payload) ==
  /\ "stats" \in boot
  /\ boot' = boot \ {"stats"}
  /\ stats' = IF outcome = "ok" THEN payload ELSE stats
  /\ UNCHANGED <<activePage, languageSet, wordPool, shuffledWords, practiceIndex, answer,
                 practiceStatus, lastAnswer, manualStatus, addVars, practiceTimer, inflight>>
  /\ UNCHANGED <<pronVars, endingsVars>>

fetchSessionDone(outcome, language, words) ==
  /\ "session" \in boot
  /\ boot' = boot \ {"session"}
  /\ IF outcome = "ok"
     THEN /\ languageSet' = language
          /\ wordPool' = words
          /\ ModeEffect(activePage, words, inflight)
          /\ UNCHANGED <<activePage, stats, manualStatus, addVars, practiceTimer>>
     ELSE UNCHANGED <<activePage, languageSet, wordPool, shuffledWords, practiceIndex,
                      answer, practiceStatus, lastAnswer, stats, manualStatus, addVars,
                      practiceTimer, inflight, pronVars, endingsVars>>

(* ------------------------------ starter set ---------------------------- *)

\* "Load starter set" on the add page: GET words/initial is issued.
handleLoadInitial ==
  /\ activePage = "add"
  /\ addMode = "words"
  /\ inflight' = Issue(inflight, Request("words/initial", NoWord, "none", <<>>, 0))
  /\ UNCHANGED <<activePage, languageSet, wordPool, shuffledWords, practiceIndex, answer,
                 practiceStatus, lastAnswer, stats, manualStatus, addVars, practiceTimer, boot>>
  /\ UNCHANGED <<pronVars, endingsVars>>

\* words/initial answered: POST session/words/bulk follows, or the catch block.
handleLoadInitialFetched(r, outcome) ==
  /\ r \in BagToSet(inflight)
  /\ r.kind = "words/initial"
  /\ IF outcome = "ok"
     THEN /\ inflight' = Issue(Retire(inflight, r), [r EXCEPT !.kind = "session/words/bulk"])
          /\ UNCHANGED <<manualStatus, addVars>>
     ELSE /\ inflight' = Retire(inflight, r)
          /\ manualStatus' = StarterFailedStatus
          /\ UNCHANGED addVars
  /\ UNCHANGED <<activePage, languageSet, wordPool, shuffledWords, practiceIndex, answer,
                 practiceStatus, lastAnswer, stats, practiceTimer, boot>>
  /\ UNCHANGED <<pronVars, endingsVars>>

\* session/words/bulk answered: setWordPool(sessionState.words ?? []), or the catch block.
handleLoadInitialSaved(r, outcome, words) ==
  /\ r \in BagToSet(inflight)
  /\ r.kind = "session/words/bulk"
  /\ IF outcome = "ok"
     THEN /\ wordPool' = words
          /\ manualStatus' = StarterLoadedStatus
          /\ UNCHANGED addVars
          /\ ModeEffect(activePage, words, Retire(inflight, r))
          /\ UNCHANGED <<activePage, languageSet, stats, practiceTimer, boot>>
     ELSE /\ inflight' = Retire(inflight, r)
          /\ manualStatus' = StarterFailedStatus
          /\ UNCHANGED addVars
          /\ UNCHANGED <<activePage, languageSet, wordPool, shuffledWords, practiceIndex,
                         answer, practiceStatus, lastAnswer, stats, practiceTimer, boot,
                         pronVars, endingsVars>>

(* ------------------------------ add words ------------------------------ *)

\* A request of the add page in flight: the trimmed entry and the payload its handler
\* holds so far.
AddRequest(kind, text, payload) == [kind |-> kind, text |-> text, payload |-> payload]

\* The tabs of the add page.
setAddMode(mode) ==
  /\ activePage = "add"
  /\ mode # addMode
  /\ addMode' = mode
  /\ UNCHANGED <<manualEntry, verbEntry, verbStatus, verbLoading, verbPool>>
  /\ UNCHANGED <<activePage, languageSet, wordPool, shuffledWords, practiceIndex, answer,
                 practiceStatus, lastAnswer, stats, manualStatus, practiceTimer, boot,
                 inflight, pronVars, endingsVars>>

\* onChange of the word entry.
setManualEntry(value) ==
  /\ activePage = "add"
  /\ addMode = "words"
  /\ value # manualEntry
  /\ manualEntry' = value
  /\ UNCHANGED <<addMode, verbEntry, verbStatus, verbLoading, verbPool>>
  /\ UNCHANGED <<activePage, languageSet, wordPool, shuffledWords, practiceIndex, answer,
                 practiceStatus, lastAnswer, stats, manualStatus, practiceTimer, boot,
                 inflight, pronVars, endingsVars>>

handleManualSubmitUntrimmed ==
  /\ activePage = "add"
  /\ addMode = "words"
  /\ LET trimmed == manualEntry
     IN  IF trimmed = <<>>
         THEN /\ manualStatus' = EmptyEntryStatus
              /\ UNCHANGED inflight
         ELSE /\ inflight' = Issue(inflight,
                               AddRequest(IF Includes(trimmed, ",") THEN "words/check/bulk"
                                          ELSE "words/check", trimmed, NoPayload))
              /\ UNCHANGED manualStatus
  /\ UNCHANGED addVars
  /\ UNCHANGED <<activePage, languageSet, wordPool, shuffledWords, practiceIndex, answer,
                 practiceStatus, lastAnswer, stats, practiceTimer, boot, pronVars,
                 endingsVars>>

\* "Validate & add" up to its first await, or its local rejection.
handleManualSubmit ==
  /\ activePage = "add"
  /\ addMode = "words"
  /\ LET trimmed == Trim(manualEntry)
     IN  IF trimmed = <<>>
         THEN /\ manualStatus' = EmptyEntryStatus
              /\ UNCHANGED inflight
         ELSE /\ inflight' = Issue(inflight,
                               AddRequest(IF Includes(trimmed, ",") THEN "words/check/bulk"
                                          ELSE "words/check", trimmed, NoPayload))
              /\ UNCHANGED manualStatus
  /\ UNCHANGED addVars
  /\ UNCHANGED <<activePage, languageSet, wordPool, shuffledWords, practiceIndex, answer,
                 practiceStatus, lastAnswer, stats, practiceTimer, boot, pronVars,
                 endingsVars>>

\* The catch and finally blocks of handleManualSubmit, or a return inside its try block
\* with the given status.
ManualSettled(r, status) ==
  /\ inflight' = Retire(inflight, r)
  /\ manualStatus' = status
  /\ manualEntry' = <<>>
  /\ UNCHANGED <<addMode, verbEntry, verbStatus, verbLoading, verbPool>>
  /\ UNCHANGED <<activePage, languageSet, wordPool, shuffledWords, practiceIndex, answer,
                 practiceStatus, lastAnswer, stats, practiceTimer, boot, pronVars,
                 endingsVars>>

handleManualSubmitCheckedSavesAnyway(r, outcome, found) ==
  /\ r \in BagToSet(inflight)
  /\ r.kind = "words/check"
  /\ inflight' = Issue(Retire(inflight, r), [r EXCEPT !.kind = "session/words"])
  /\ UNCHANGED <<manualStatus, addVars>>
  /\ UNCHANGED <<activePage, languageSet, wordPool, shuffledWords, practiceIndex,
                 answer, practiceStatus, lastAnswer, stats, practiceTimer, boot,
                 pronVars, endingsVars>>

\* words/check answered: not found, POST session/words, or the catch block.
handleManualSubmitChecked(r, outcome, found) ==
  /\ r \in BagToSet(inflight)
  /\ r.kind = "words/check"
  /\ IF outcome # "ok" THEN ManualSettled(r, ManualFailedStatus)
     ELSE IF ~found THEN ManualSettled(r, WordNotFoundStatus)
     ELSE /\ inflight' = Issue(Retire(inflight, r), [r EXCEPT !.kind = "session/words"])
          /\ UNCHANGED <<manualStatus, addVars>>
          /\ UNCHANGED <<activePage, languageSet, wordPool, shuffledWords, practiceIndex,
                         answer, practiceStatus, lastAnswer, stats, practiceTimer, boot,
                         pronVars, endingsVars>>

\* session/words answered: setWordPool(sessionState.words ?? []), or the catch block.
handleManualSubmitSaved(r, outcome, words) ==
  /\ r \in BagToSet(inflight)
  /\ r.kind = "session/words"
  /\ IF outcome = "ok"
     THEN /\ wordPool' = words
          /\ manualStatus' = WordSavedStatus
          /\ manualEntry' = <<>>
          /\ ModeEffect(activePage, words, Retire(inflight, r))
          /\ UNCHANGED <<addMode, verbEntry, verbStatus, verbLoading, verbPool>>
          /\ UNCHANGED <<activePage, languageSet, stats, practiceTimer, boot>>
     ELSE ManualSettled(r, ManualFailedStatus)

\* words/check/bulk answered: fetchSession is awaited, or the catch block.
handleManualSubmitBulkChecked(r, outcome, payload) ==
  /\ r \in BagToSet(inflight)
  /\ r.kind = "words/check/bulk"
  /\ IF outcome = "ok"
     THEN /\ inflight' = Issue(Retire(inflight, r),
                               [r EXCEPT !.kind = "session", !.payload = payload])
          /\ UNCHANGED <<manualStatus, addVars>>
          /\ UNCHANGED <<activePage, languageSet, wordPool, shuffledWords, practiceIndex,
                         answer, practiceStatus, lastAnswer, stats, practiceTimer, boot,
                         pronVars, endingsVars>>
     ELSE ManualSettled(r, ManualFailedStatus)

\* The fetchSession of a bulk entry returned (it catches its own errors): the status of
\* the counts, then the finally block.
handleManualSubmitBulkRefreshed(r, outcome, language, words) ==
  /\ r \in BagToSet(inflight)
  /\ r.kind = "session"
  /\ IF outcome = "ok"
     THEN /\ languageSet' = language
          /\ wordPool' = words
          /\ manualStatus' = BulkStatus(r.payload)
          /\ manualEntry' = <<>>
          /\ ModeEffect(activePage, words, Retire(inflight, r))
          /\ UNCHANGED <<addMode, verbEntry, verbStatus, verbLoading, verbPool>>
          /\ UNCHANGED <<activePage, stats, practiceTimer, boot>>
     ELSE ManualSettled(r, BulkStatus(r.payload))

(* ------------------------------ add verbs ------------------------------ *)

\* fetchVerbSession of the mount effect.
fetchVerbSessionDone(outcome, verbs) ==
  /\ "verbs/session" \in boot
  /\ boot' = boot \ {"verbs/session"}
  /\ verbPool' = IF outcome = "ok" THEN verbs ELSE verbPool
  /\ UNCHANGED <<manualEntry, addMode, verbEntry, verbStatus, verbLoading>>
  /\ UNCHANGED <<activePage, languageSet, wordPool, shuffledWords, practiceIndex, answer,
                 practiceStatus, lastAnswer, stats, manualStatus, practiceTimer, inflight,
                 pronVars, endingsVars>>

\* onChange of the verb entry, which is disabled while verbLoading.
setVerbEntry(value) ==
  /\ activePage = "add"
  /\ addMode = "verbs"
  /\ ~verbLoading
  /\ value # verbEntry
  /\ verbEntry' = value
  /\ UNCHANGED <<manualEntry, addMode, verbStatus, verbLoading, verbPool>>
  /\ UNCHANGED <<activePage, languageSet, wordPool, shuffledWords, practiceIndex, answer,
                 practiceStatus, lastAnswer, stats, manualStatus, practiceTimer, boot,
                 inflight, pronVars, endingsVars>>

\* "Add verb" (disabled while verbLoading) up to its first await, or its local rejection.
handleVerbSubmit ==
  /\ activePage = "add"
  /\ addMode = "verbs"
  /\ ~verbLoading
  /\ LET trimmed == Trim(verbEntry)
     IN  IF trimmed = <<>>
         THEN /\ verbStatus' = EmptyVerbStatus
              /\ UNCHANGED <<verbLoading, inflight>>
         ELSE /\ verbLoading' = TRUE
              /\ inflight' = Issue(inflight, AddRequest("verbs/add", trimmed, NoPayload))
              /\ UNCHANGED verbStatus
  /\ UNCHANGED <<manualEntry, addMode, verbEntry, verbPool>>
  /\ UNCHANGED <<activePage, languageSet, wordPool, shuffledWords, practiceIndex, answer,
                 practiceStatus, lastAnswer, stats, manualStatus, practiceTimer, boot,
                 pronVars, endingsVars>>

VerbSettledWithoutFinally(r, status, verbs) ==
  /\ inflight' = Retire(inflight, r)
  /\ verbStatus' = status
  /\ verbPool' = verbs
  /\ UNCHANGED <<manualEntry, addMode, verbEntry, verbLoading>>
  /\ UNCHANGED <<activePage, languageSet, wordPool, shuffledWords, practiceIndex, answer,
                 practiceStatus, lastAnswer, stats, manualStatus, practiceTimer, boot,
                 pronVars, endingsVars>>

\* A return or the catch block of handleVerbSubmit with the given status and verb list,
\* then its finally block.
VerbSettled(r, status, verbs) ==
  /\ inflight' = Retire(inflight, r)
  /\ verbStatus' = status
  /\ verbPool' = verbs
  /\ verbEntry' = <<>>
  /\ verbLoading' = FALSE
  /\ UNCHANGED <<manualEntry, addMode>>
  /\ UNCHANGED <<activePage, languageSet, wordPool, shuffledWords, practiceIndex, answer,
                 practiceStatus, lastAnswer, stats, manualStatus, practiceTimer, boot,
                 pronVars, endingsVars>>

\* The handler goes on to its next await.
VerbAwaits(r, next) ==
  /\ inflight' = Issue(Retire(inflight, r), next)
  /\ UNCHANGED addVars
  /\ UNCHANGED <<activePage, languageSet, wordPool, shuffledWords, practiceIndex, answer,
                 practiceStatus, lastAnswer, stats, manualStatus, practiceTimer, boot,
                 pronVars, endingsVars>>

\* verbs/add answered: rejected, POST verbs/session, fetchVerbSession, or the catch block.
handleVerbSubmitAdded(r, outcome, payload) ==
  /\ r \in BagToSet(inflight)
  /\ r.kind = "verbs/add"
  /\ IF outcome # "ok" THEN VerbSettled(r, VerbFailedStatus, verbPool)
     ELSE IF ~payload.success THEN VerbSettled(r, VerbRejectedStatus, verbPool)
     ELSE VerbAwaits(r, [r EXCEPT !.kind = IF payload.verb THEN "verbs/session?verb_id"
                                           ELSE "fetchVerbSession",
                                  !.payload = payload])

\* POST verbs/session settled: its response is not read; a thrown error is caught.
handleVerbSubmitSessioned(r, outcome) ==
  /\ r \in BagToSet(inflight)
  /\ r.kind = "verbs/session?verb_id"
  /\ IF outcome = "throw" THEN VerbSettled(r, VerbFailedStatus, verbPool)
     ELSE VerbAwaits(r, [r EXCEPT !.kind = "fetchVerbSession"])

\* The fetchVerbSession of the handler returned (it catches its own errors): the status
\* of the payload, then the finally block.
handleVerbSubmitRefreshed(r, outcome, verbs) ==
  /\ r \in BagToSet(inflight)
  /\ r.kind = "fetchVerbSession"
  /\ VerbSettled(r, VerbAddedStatus(r.payload), IF outcome = "ok" THEN verbs ELSE verbPool)

(* ---------------------------- word practice ---------------------------- *)

\* onChange of the answer input, which is disabled without a current word.
setAnswer(value) ==
  /\ practiceDirection # "none"
  /\ currentWord # NoWord
  /\ value # answer
  /\ answer' = value
  /\ UNCHANGED <<activePage, languageSet, wordPool, shuffledWords, practiceIndex,
                 practiceStatus, lastAnswer, stats, manualStatus, addVars, practiceTimer, boot,
                 inflight>>
  /\ UNCHANGED <<pronVars, endingsVars>>

NextIndexNoWrap(previous, len) == IF previous + 1 < len THEN previous + 1 ELSE previous

\* (previous) => (previous + 1) % length
NextIndex(previous, len) == (previous + 1) % len

\* handlePracticeSubmit up to its await: the guards, clearTimeout, the empty-answer
\* return, or POST practice/validate.
handlePracticeSubmit ==
  /\ IF NoCurrentItem
     THEN UNCHANGED <<practiceTimer, practiceStatus, inflight>>
     ELSE /\ practiceTimer' = ClearTimer(practiceTimer)
          /\ IF Trim(answer) = <<>>
             THEN /\ practiceStatus' = EmptyAnswerStatus
                  /\ UNCHANGED inflight
             ELSE /\ inflight' = Issue(inflight,
                       Request("practice/validate", currentWord, practiceDirection,
                               answer, Len(wordPool)))
                  /\ UNCHANGED practiceStatus
  /\ UNCHANGED <<activePage, languageSet, wordPool, shuffledWords, practiceIndex, answer,
                 lastAnswer, stats, manualStatus, addVars, boot>>
  /\ UNCHANGED <<pronVars, endingsVars>>

handlePracticeSubmitDoneCompares(r, outcome, was_correct, payloadStats) ==
  /\ r \in BagToSet(inflight)
  /\ r.kind = "practice/validate"
  /\ inflight' = Retire(inflight, r)
  /\ IF outcome = "ok"
     THEN /\ practiceStatus' = IF r.answer = CorrectAnswer THEN CorrectStatus ELSE WrongStatus
          /\ stats' = payloadStats
          /\ lastAnswer' = [userAnswer |-> r.answer,
                            correctAnswer |-> CorrectAnswer,
                            wasCorrect |-> (r.answer = CorrectAnswer), direction |-> r.direction,
                            skipped |-> FALSE]
          /\ practiceTimer' = SetTimer(practiceTimer)
     ELSE /\ practiceStatus' = SubmitFailedStatus
          /\ UNCHANGED <<stats, lastAnswer, practiceTimer>>
  /\ answer' = <<>>
  /\ practiceIndex' = NextIndex(practiceIndex, r.len)
  /\ UNCHANGED <<activePage, languageSet, wordPool, shuffledWords, manualStatus, addVars, boot>>
  /\ UNCHANGED <<pronVars, endingsVars>>

\* handlePracticeSubmit from the response of practice/validate (or the throw) to its end.
handlePracticeSubmitDone(r, outcome, was_correct, payloadStats) ==
  /\ r \in BagToSet(inflight)
  /\ r.kind = "practice/validate"
  /\ inflight' = Retire(inflight, r)
  /\ IF outcome = "ok"
     THEN /\ practiceStatus' = IF was_correct THEN CorrectStatus ELSE WrongStatus
          /\ stats' = payloadStats
          /\ lastAnswer' = [userAnswer |-> r.answer,
                            correctAnswer |-> CorrectAnswer,
                            wasCorrect |-> was_correct, direction |-> r.direction,
                            skipped |-> FALSE]
          /\ practiceTimer' = SetTimer(practiceTimer)
     ELSE /\ practiceStatus' = SubmitFailedStatus
          /\ UNCHANGED <<stats, lastAnswer, practiceTimer>>
  /\ answer' = <<>>
  /\ practiceIndex' = NextIndex(practiceIndex, r.len)
  /\ UNCHANGED <<activePage, languageSet, wordPool, shuffledWords, manualStatus, addVars, boot>>
  /\ UNCHANGED <<pronVars, endingsVars>>

\* handleSkip up to its await: the guard, clearTimeout, POST practice/skip.
handleSkip ==
  /\ IF NoCurrentItem
     THEN UNCHANGED <<practiceTimer, inflight>>
     ELSE /\ practiceTimer' = ClearTimer(practiceTimer)
          /\ inflight' = Issue(inflight,
               Request("practice/skip", currentWord, practiceDirection, <<>>,
                       Len(shuffledWords)))
  /\ UNCHANGED <<activePage, languageSet, wordPool, shuffledWords, practiceIndex, answer,
                 practiceStatus, lastAnswer, stats, manualStatus, addVars, boot>>
  /\ UNCHANGED <<pronVars, endingsVars>>

SkipAnswerUnmarked(r) ==
  [userAnswer |-> <<>>, correctAnswer |-> CorrectAnswer, wasCorrect |-> FALSE,
   direction |-> r.direction, skipped |-> FALSE]

\* The record handleSkip stores with setLastAnswer.
SkipAnswer(r) ==
  [userAnswer |-> <<>>, correctAnswer |-> CorrectAnswer, wasCorrect |-> FALSE,
   direction |-> r.direction, skipped |-> TRUE]

\* handleSkip from the response of practice/skip (or the throw) to its end.
handleSkipDone(r, outcome, payloadStats) ==
  /\ r \in BagToSet(inflight)
  /\ r.kind = "practice/skip"
  /\ r.direction # "pronunciation"
  /\ inflight' = Retire(inflight, r)
  /\ IF outcome = "ok"
     THEN /\ lastAnswer' = SkipAnswer(r)
          /\ practiceStatus' = SkippedStatus
          /\ stats' = payloadStats
          /\ practiceTimer' = SetTimer(practiceTimer)
     ELSE /\ practiceStatus' = SkipFailedStatus
          /\ UNCHANGED <<stats, lastAnswer, practiceTimer>>
  /\ answer' = <<>>
  /\ practiceIndex' = NextIndex(practiceIndex, r.len)
  /\ UNCHANGED <<activePage, languageSet, wordPool, shuffledWords, manualStatus, addVars, boot>>
  /\ UNCHANGED <<pronVars, endingsVars>>

practiceTimeoutClearsAll ==
  /\ practiceTimer.live
  /\ practiceTimer' = [practiceTimer EXCEPT !.live = FALSE]
  /\ practiceStatus' = NoStatus
  /\ lastAnswer' = NoAnswer
  /\ pronunciationStatus' = NoStatus
  /\ endingsStatus' = NoStatus
  /\ UNCHANGED <<activePage, languageSet, wordPool, shuffledWords, practiceIndex, answer,
                 stats, manualStatus, addVars, boot, inflight>>
  /\ UNCHANGED <<pronunciationIndex, pronunciationTimer, isRecording, mediaRecorderRef, streams,
                 endingsQuestion, endingsStats, endingsTimer>>

\* The auto-hide timeout practiceStatusTimeoutRef names fires after STATUS_HIDE_DELAY.
practiceTimeout ==
  /\ practiceTimer.live
  /\ practiceTimer' = [practiceTimer EXCEPT !.live = FALSE]
  /\ practiceStatus' = NoStatus
  /\ lastAnswer' = NoAnswer
  /\ UNCHANGED <<activePage, languageSet, wordPool, shuffledWords, practiceIndex, answer,
                 stats, manualStatus, addVars, boot, inflight>>
  /\ UNCHANGED <<pronVars, endingsVars>>

\* An auto-hide timeout that practiceStatusTimeoutRef no longer names fires.
practiceTimeoutOrphan ==
  /\ practiceTimer.orphans > 0
  /\ practiceTimer' = [practiceTimer EXCEPT !.orphans = @ - 1]
  /\ practiceStatus' = NoStatus
  /\ lastAnswer' = NoAnswer
  /\ UNCHANGED <<activePage, languageSet, wordPool, shuffledWords, practiceIndex, answer,
                 stats, manualStatus, addVars, boot, inflight>>
  /\ UNCHANGED <<pronVars, endingsVars>>

(* ------------------------------ pronunciation -------------------------- *)

wordVars == <<activePage, languageSet, wordPool, shuffledWords, practiceIndex, answer,
              practiceStatus, lastAnswer, stats, manualStatus, addVars, practiceTimer>>

\* The state the pronunciation handlers leave alone, statistics apart.
pageVars == <<activePage, languageSet, wordPool, shuffledWords, practiceIndex, answer,
              practiceStatus, lastAnswer, manualStatus, addVars, practiceTimer>>

\* The Record button, shown while not recording and enabled with a current word:
\* startRecording up to its await of getUserMedia.
startRecording ==
  /\ activePage = "pronunciation"
  /\ ~isRecording
  /\ currentPronunciationWord # NoWord
  /\ inflight' = Issue(inflight,
       Request("getUserMedia", currentPronunciationWord, "pronunciation", <<>>, 0))
  /\ UNCHANGED <<wordVars, pronVars, endingsVars, boot>>

\* startRecording from the settling of getUserMedia to its end: the recorder keeps the
\* submitPronunciation of the render the click was made in.
startRecordingDone(r, outcome) ==
  /\ r \in BagToSet(inflight)
  /\ r.kind = "getUserMedia"
  /\ inflight' = Retire(inflight, r)
  /\ IF outcome = "ok"
     THEN /\ mediaRecorderRef' = [state |-> "recording", word |-> r.word]
          /\ streams' = streams + 1
          /\ isRecording' = TRUE
          /\ pronunciationStatus' = RecordingStatus
     ELSE /\ pronunciationStatus' = MicrophoneFailedStatus
          /\ streams' = IF outcome = "unsupported" THEN streams + 1 ELSE streams
          /\ UNCHANGED <<mediaRecorderRef, isRecording>>
  /\ UNCHANGED <<wordVars, pronunciationIndex, pronunciationTimer, endingsVars, boot>>

\* The Stop button, shown while recording: mediaRecorder.stop() queues the stop event.
stopRecording ==
  /\ activePage = "pronunciation"
  /\ isRecording
  /\ IF mediaRecorderRef.state = "recording"
     THEN /\ mediaRecorderRef' = [mediaRecorderRef EXCEPT !.state = "inactive"]
          /\ inflight' = Issue(inflight,
               Request("onstop", mediaRecorderRef.word, "pronunciation", <<>>, 0))
          /\ isRecording' = FALSE
          /\ pronunciationStatus' = ProcessingStatus
     ELSE UNCHANGED <<mediaRecorderRef, inflight, isRecording, pronunciationStatus>>
  /\ UNCHANGED <<wordVars, pronunciationIndex, pronunciationTimer, streams, endingsVars,
                 boot>>

\* mediaRecorder.onstop: submitPronunciation of the recorder's render up to its await.
submitPronunciation(r) ==
  /\ r \in BagToSet(inflight)
  /\ r.kind = "onstop"
  /\ streams' = streams - 1
  /\ IF r.word = NoWord
     THEN /\ inflight' = Retire(inflight, r)
          /\ UNCHANGED pronunciationTimer
     ELSE /\ pronunciationTimer' = ClearTimer(pronunciationTimer)
          /\ inflight' = Issue(Retire(inflight, r),
               [r EXCEPT !.kind = "practice/pronunciation"])
  /\ UNCHANGED <<wordVars, pronunciationStatus, pronunciationIndex, isRecording,
                 mediaRecorderRef, endingsVars, boot>>

\* submitPronunciation from the response of practice/pronunciation (or the throw) to
\* its end.
submitPronunciationDone(r, outcome, was_correct, payloadStats) ==
  /\ r \in BagToSet(inflight)
  /\ r.kind = "practice/pronunciation"
  /\ inflight' = Retire(inflight, r)
  /\ IF outcome = "ok"
     THEN /\ pronunciationStatus' = IF was_correct THEN PronunciationCorrectStatus
                                                   ELSE PronunciationWrongStatus
          /\ stats' = payloadStats
          /\ pronunciationTimer' = SetTimer(pronunciationTimer)
     ELSE /\ pronunciationStatus' = PronunciationFailedStatus
          /\ UNCHANGED <<stats, pronunciationTimer>>
  /\ UNCHANGED <<pageVars, pronunciationIndex, isRecording, mediaRecorderRef, streams,
                 endingsVars, boot>>

\* The "Next word" button, enabled with a current word while not recording.
nextPronunciationWord ==
  /\ activePage = "pronunciation"
  /\ ~isRecording
  /\ currentPronunciationWord # NoWord
  /\ pronunciationIndex' = NextIndex(pronunciationIndex, Len(shuffledWords))
  /\ pronunciationStatus' = NoStatus
  /\ UNCHANGED <<wordVars, pronunciationTimer, isRecording, mediaRecorderRef, streams,
                 endingsVars, boot, inflight>>

\* The Skip button of the pronunciation page: handlePronunciationSkip up to its await.
handlePronunciationSkip ==
  /\ activePage = "pronunciation"
  /\ ~isRecording
  /\ currentPronunciationWord # NoWord
  /\ pronunciationTimer' = ClearTimer(pronunciationTimer)
  /\ inflight' = Issue(inflight,
       Request("practice/skip", currentPronunciationWord, "pronunciation", <<>>,
               Len(shuffledWords)))
  /\ UNCHANGED <<wordVars, pronunciationStatus, pronunciationIndex, isRecording,
                 mediaRecorderRef, streams, endingsVars, boot>>

handlePronunciationSkipDoneKeepsStats(r, outcome, payloadStats) ==
  /\ r \in BagToSet(inflight)
  /\ r.kind = "practice/skip"
  /\ r.direction = "pronunciation"
  /\ inflight' = Retire(inflight, r)
  /\ stats' = stats
  /\ IF outcome = "throw"
     THEN UNCHANGED <<pronunciationStatus, pronunciationTimer>>
     ELSE /\ pronunciationStatus' = PronunciationSkippedStatus
          /\ pronunciationTimer' = SetTimer(pronunciationTimer)
  /\ pronunciationIndex' = NextIndex(pronunciationIndex, r.len)
  /\ UNCHANGED <<pageVars, isRecording, mediaRecorderRef, streams, endingsVars, boot>>

\* handlePronunciationSkip from the response of practice/skip (or the throw) to its end.
handlePronunciationSkipDone(r, outcome, payloadStats) ==
  /\ r \in BagToSet(inflight)
  /\ r.kind = "practice/skip"
  /\ r.direction = "pronunciation"
  /\ inflight' = Retire(inflight, r)
  /\ stats' = IF outcome = "ok" THEN payloadStats ELSE stats
  /\ IF outcome = "throw"
     THEN UNCHANGED <<pronunciationStatus, pronunciationTimer>>
     ELSE /\ pronunciationStatus' = PronunciationSkippedStatus
          /\ pronunciationTimer' = SetTimer(pronunciationTimer)
  /\ pronunciationIndex' = NextIndex(pronunciationIndex, r.len)
  /\ UNCHANGED <<pageVars, isRecording, mediaRecorderRef, streams, endingsVars, boot>>

\* The auto-hide timeout pronunciationStatusTimeoutRef names fires after
\* STATUS_HIDE_DELAY.
pronunciationTimeout ==
  /\ pronunciationTimer.live
  /\ pronunciationTimer' = [pronunciationTimer EXCEPT !.live = FALSE]
  /\ pronunciationStatus' = NoStatus
  /\ UNCHANGED <<wordVars, pronunciationIndex, isRecording, mediaRecorderRef, streams,
                 endingsVars, boot, inflight>>

(* ------------------------------ conjugation ---------------------------- *)

\* fetchEndingsStats of the mount effect settles.
fetchEndingsStatsDone(outcome, payload) ==
  /\ "verbs/stats" \in boot
  /\ boot' = boot \ {"verbs/stats"}
  /\ endingsStats' = IF outcome = "ok" THEN payload ELSE endingsStats
  /\ UNCHANGED <<wordVars, pronVars, endingsQuestion, endingsStatus, endingsTimer, inflight>>

\* fetchEndingsQuestion from the response of verbs/question (or the throw) to its end.
fetchEndingsQuestionDone(r, outcome, payload) ==
  /\ r \in BagToSet(inflight)
  /\ r.kind = "verbs/question"
  /\ inflight' = Retire(inflight, r)
  /\ IF outcome = "ok"
     THEN endingsQuestion' = payload /\ UNCHANGED endingsStatus
     ELSE endingsStatus' = NoVerbsStatus /\ UNCHANGED endingsQuestion
  /\ UNCHANGED <<wordVars, pronVars, endingsStats, endingsTimer, boot>>

\* A POST verbs/validate of the given handler in flight, for the question its closure
\* captured.
ValidateRequest(handler) ==
  [kind |-> "verbs/validate", handler |-> handler, question |-> endingsQuestion]

\* An option button of the endings card, rendered while there is a question:
\* handleEndingsAnswer up to its await.
handleEndingsAnswer ==
  /\ activePage = "endings"
  /\ IF endingsQuestion = NoQuestion
     THEN UNCHANGED <<endingsTimer, inflight>>
     ELSE /\ endingsTimer' = ClearTimer(endingsTimer)
          /\ inflight' = Issue(inflight, ValidateRequest("handleEndingsAnswer"))
  /\ UNCHANGED <<wordVars, pronVars, endingsQuestion, endingsStatus, endingsStats, boot>>

handleEndingsAnswerDoneNoFetch(r, outcome, was_correct, payloadStats) ==
  /\ r \in BagToSet(inflight)
  /\ r.kind = "verbs/validate"
  /\ r.handler = "handleEndingsAnswer"
  /\ IF outcome = "ok"
     THEN /\ endingsStatus' = IF was_correct THEN EndingsCorrectStatus
                                             ELSE EndingsWrongStatus
          /\ endingsStats' = payloadStats
          /\ endingsTimer' = SetTimer(endingsTimer)
     ELSE /\ endingsStatus' = EndingsFailedStatus
          /\ UNCHANGED <<endingsStats, endingsTimer>>
  /\ inflight' = Retire(inflight, r)
  /\ UNCHANGED <<wordVars, pronVars, endingsQuestion, boot>>

\* handleEndingsAnswer from the response of verbs/validate (or the throw) to its end.
handleEndingsAnswerDone(r, outcome, was_correct, payloadStats) ==
  /\ r \in BagToSet(inflight)
  /\ r.kind = "verbs/validate"
  /\ r.handler = "handleEndingsAnswer"
  /\ IF outcome = "ok"
     THEN /\ endingsStatus' = IF was_correct THEN EndingsCorrectStatus
                                             ELSE EndingsWrongStatus
          /\ endingsStats' = payloadStats
          /\ inflight' = Issue(Retire(inflight, r), QuestionRequest)
          /\ endingsTimer' = SetTimer(endingsTimer)
     ELSE /\ endingsStatus' = EndingsFailedStatus
          /\ inflight' = Retire(inflight, r)
          /\ UNCHANGED <<endingsStats, endingsTimer>>
  /\ UNCHANGED <<wordVars, pronVars, endingsQuestion, boot>>

\* The skip button of the endings card: handleEndingsSkip up to its first await.
handleEndingsSkip ==
  /\ activePage = "endings"
  /\ IF endingsQuestion = NoQuestion
     THEN UNCHANGED <<endingsTimer, inflight>>
     ELSE /\ endingsTimer' = ClearTimer(endingsTimer)
          /\ inflight' = Issue(inflight, ValidateRequest("handleEndingsSkip"))
  /\ UNCHANGED <<wordVars, pronVars, endingsQuestion, endingsStatus, endingsStats, boot>>

\* handleEndingsSkip from the settling of verbs/validate to its second await: the
\* response is not read, so any response goes on to fetchEndingsStats; a throw goes to
\* the catch block, which only logs.
handleEndingsSkipValidated(r, outcome) ==
  /\ r \in BagToSet(inflight)
  /\ r.kind = "verbs/validate"
  /\ r.handler = "handleEndingsSkip"
  /\ IF outcome = "throw"
     THEN /\ inflight' = Retire(inflight, r)
          /\ UNCHANGED endingsStatus
     ELSE /\ endingsStatus' = EndingsSkippedStatus
          /\ inflight' = Issue(Retire(inflight, r), [r EXCEPT !.kind = "verbs/stats"])
  /\ UNCHANGED <<wordVars, pronVars, endingsQuestion, endingsStats, endingsTimer, boot>>

\* handleEndingsSkip from the settling of fetchEndingsStats to its end.
handleEndingsSkipStats(r, outcome, payload) ==
  /\ r \in BagToSet(inflight)
  /\ r.kind = "verbs/stats"
  /\ endingsStats' = IF outcome = "ok" THEN payload ELSE endingsStats
  /\ inflight' = Issue(Retire(inflight, r), QuestionRequest)
  /\ endingsTimer' = SetTimer(endingsTimer)
  /\ UNCHANGED <<wordVars, pronVars, endingsQuestion, endingsStatus, boot>>

\* The auto-hide timeout endingsStatusTimeoutRef names fires after STATUS_HIDE_DELAY.
endingsTimeout ==
  /\ endingsTimer.live
  /\ endingsTimer' = [endingsTimer EXCEPT !.live = FALSE]
  /\ endingsStatus' = NoStatus
  /\ UNCHANGED <<wordVars, pronVars, endingsQuestion, endingsStats, boot, inflight>>

(* ------------------------------- initial ------------------------------- *)

Init ==
  /\ activePage = "home"
  /\ languageSet = "english"
  /\ wordPool = <<>>
  /\ shuffledWords = <<>>
  /\ practiceIndex = 0
  /\ answer = <<>>
  /\ practiceStatus = NoStatus
  /\ lastAnswer = NoAnswer
  /\ stats = NoStats
  /\ manualStatus = NoStatus
  /\ manualEntry = <<>>
  /\ addMode = "words"
  /\ verbEntry = <<>>
  /\ verbStatus = NoStatus
  /\ verbLoading = FALSE
  /\ verbPool = <<>>
  /\ practiceTimer = NoTimer
  /\ pronunciationStatus = NoStatus
  /\ pronunciationIndex = 0
  /\ pronunciationTimer = NoTimer
  /\ isRecording = FALSE
  /\ mediaRecorderRef = NoRecorder
  /\ streams = 0
  /\ endingsQuestion = NoQuestion
  /\ endingsStatus = NoStatus
  /\ endingsStats = NoStats
  /\ endingsTimer = NoTimer
  /\ boot = {"stats", "session", "verbs/session", "verbs/stats"}
  /\ inflight = EmptyBag
  /\ lastOp = "mount"
  /\ visited = {}
  /\ runStart = 0
  /\ runCount = 0

LoadKinds == {"words/initial", "session/words/bulk"}

PronunciationKinds == {"getUserMedia", "onstop", "practice/pronunciation"}

EndingsKinds == {"verbs/validate", "verbs/stats"}

\* The requests of the given kinds in the bag b, with their multiplicity.
CountOf(b, kinds) ==
  BagCardinality([r \in {x \in BagToSet(b) : x.kind \in kinds} |-> CopiesIn(r, b)])

\* The step stays within the bounds of the model.
Within(limit) ==
  /\ CountOf(inflight', PracticeKinds) <= limit
  /\ CountOf(inflight', LoadKinds) <= MaxLoads
  /\ CountOf(inflight', EndingsKinds) <= limit
  /\ CountOf(inflight', PronunciationKinds) <= limit
  /\ pronunciationTimer'.orphans <= MaxOrphans
  /\ CountOf(inflight', {"verbs/question"}) <= MaxFetches
  /\ practiceTimer'.orphans <= MaxOrphans
  /\ endingsTimer'.orphans <= MaxOrphans

(* ------------------------------ history -------------------------------- *)

\* lastOp: the step is the one named op (the call of a handler, the settling of a
\* request), or some other step.
Called(op) == lastOp' = op /\ UNCHANGED <<visited, runStart, runCount>>

\* visited at a submit or skip step: a request it issues is for the current word; a full
\* pass over the pool starts a new one.
Issuing ==
  /\ visited' = IF inflight' = inflight THEN visited
                ELSE IF visited = Range(shuffledWords) THEN {currentWord}
                ELSE visited \cup {currentWord}
  /\ UNCHANGED <<lastOp, runStart, runCount>>

\* visited at a step that runs the mode-entry effect when ran holds.
Entering(ran) ==
  /\ visited' = IF ran THEN {} ELSE visited
  /\ UNCHANGED <<lastOp, runStart, runCount>>

\* The run of advances at a step that runs the mode-entry effect when ran holds: the run
\* restarts, once no submit/skip issued before the effect is in flight.
Restarting(ran) ==
  /\ runStart' = IF ran THEN 0 ELSE runStart
  /\ runCount' = IF ~ran THEN runCount
                 ELSE IF PracticeInflight(inflight') = {} THEN 0 ELSE Dirty
  /\ UNCHANGED <<lastOp, visited>>

\* The run of advances at a completion of a submit or skip: the completion extends the
\* run when every submit/skip in flight was issued after the last effect run.
Advancing ==
  /\ IF runCount = Dirty
     THEN /\ runStart' = IF PracticeInflight(inflight') = {} THEN practiceIndex' ELSE 0
          /\ runCount' = IF PracticeInflight(inflight') = {} THEN 0 ELSE Dirty
     ELSE IF runCount >= Len(shuffledWords)
          THEN runStart' = practiceIndex /\ runCount' = 1
          ELSE runStart' = runStart /\ runCount' = runCount + 1
  /\ UNCHANGED <<lastOp, visited>>

Untracked == UNCHANGED <<lastOp, visited, runStart, runCount>>

\* runCount as the number of submit/skip clicks so far, at a click.
Counting ==
  /\ runCount < MaxCalls
  /\ runCount' = runCount + 1
  /\ UNCHANGED <<lastOp, visited, runStart>>

(* ---------------------------- specifications --------------------------- *)

\* Translation and writing practice over the pool of the saved session.
Next ==
  \/ \E p \in {"home", "translation", "writing"} : setActivePage(p) /\ Called("other")
  \/ \E o \in Outcomes, w \in ServerPools :
       fetchSessionDone(o, "english", w) /\ Called("other")
  \/ \E v \in Answers : setAnswer(v) /\ Called("other")
  \/ handlePracticeSubmit /\ Within(MaxInflight) /\ Called("handlePracticeSubmit")
  \/ \E r \in BagToSet(inflight), o \in Outcomes, c \in BOOLEAN :
       handlePracticeSubmitDone(r, o, c, "s1") /\ Within(MaxInflight) /\ Called("other")
  \/ handleSkip /\ Within(MaxInflight) /\ Called("other")
  \/ \E r \in BagToSet(inflight), o \in Outcomes :
       handleSkipDone(r, o, "s1") /\ Within(MaxInflight) /\ Called("other")
  \/ practiceTimeout /\ Called("other")

Spec == Init /\ [][Next]_vars

\* Passes over the pool in translation practice, with the run of advances recorded.
NextCycle ==
  \/ \E p \in {"home", "translation"} : setActivePage(p) /\ Restarting(TRUE)
  \/ \E o \in Outcomes, w \in ServerPools :
       fetchSessionDone(o, "english", w) /\ Restarting(o = "ok")
  \/ setAnswer(<<"a">>) /\ Untracked
  \/ handlePracticeSubmit /\ Within(MaxInflight) /\ Untracked
  \/ \E r \in BagToSet(inflight), o \in Outcomes :
       handlePracticeSubmitDone(r, o, TRUE, "s1") /\ Within(MaxInflight) /\ Advancing
  \/ handleSkip /\ Within(MaxInflight) /\ Untracked
  \/ \E r \in BagToSet(inflight), o \in Outcomes :
       handleSkipDone(r, o, "s1") /\ Within(MaxInflight) /\ Advancing

SpecCycle == Init /\ [][NextCycle]_vars

\* Translation practice while the starter set is loaded from the add page.
NextPool ==
  \/ \E p \in {"home", "add", "translation"} : setActivePage(p) /\ Untracked
  \/ \E o \in Outcomes, w \in ServerPools : fetchSessionDone(o, "english", w) /\ Untracked
  \/ handleLoadInitial /\ Within(MaxInflight) /\ Untracked
  \/ \E r \in BagToSet(inflight), o \in Outcomes :
       handleLoadInitialFetched(r, o) /\ Untracked
  \/ \E r \in BagToSet(inflight), o \in Outcomes, w \in ServerPools :
       handleLoadInitialSaved(r, o, w) /\ Untracked
  \/ \E v \in Answers : setAnswer(v) /\ Untracked
  \/ handlePracticeSubmit /\ Within(MaxInflight) /\ Untracked
  \/ \E r \in BagToSet(inflight), o \in Outcomes :
       handlePracticeSubmitDone(r, o, TRUE, "s1") /\ Within(MaxInflight) /\ Untracked
  \/ handleSkip /\ Within(MaxInflight) /\ Untracked
  \/ \E r \in BagToSet(inflight), o \in Outcomes :
       handleSkipDone(r, o, "s1") /\ Within(MaxInflight) /\ Untracked

SpecPool == Init /\ [][NextPool]_vars

\* Translation practice with one more submit/skip in flight than elsewhere, with the
\* items requests were issued for recorded.
NextBurst ==
  \/ \E p \in {"home", "translation"} : setActivePage(p) /\ Entering(TRUE)
  \/ \E o \in Outcomes, w \in ServerPools :
       fetchSessionDone(o, "english", w) /\ Entering(o = "ok")
  \/ setAnswer(<<"a">>) /\ Untracked
  \/ handlePracticeSubmit /\ Within(MaxInflight + 1) /\ Issuing
  \/ \E r \in BagToSet(inflight), o \in Outcomes :
       handlePracticeSubmitDone(r, o, TRUE, "s1") /\ Within(MaxInflight + 1) /\ Untracked
  \/ handleSkip /\ Within(MaxInflight + 1) /\ Issuing
  \/ \E r \in BagToSet(inflight), o \in Outcomes :
       handleSkipDone(r, o, "s1") /\ Within(MaxInflight + 1) /\ Untracked
  \/ practiceTimeout /\ Untracked
  \/ practiceTimeoutOrphan /\ Untracked

SpecBurst == Init /\ [][NextBurst]_vars

\* Conjugation practice on the endings page.
NextEndings ==
  \/ \E p \in {"home", "endings"} : setActivePage(p) /\ Within(MaxInflight) /\ Untracked
  \/ \E o \in Outcomes, s \in StatsValues : fetchEndingsStatsDone(o, s) /\ Untracked
  \/ \E r \in BagToSet(inflight), o \in Outcomes, q \in Questions :
       fetchEndingsQuestionDone(r, o, q) /\ Untracked
  \/ handleEndingsAnswer /\ Within(MaxInflight) /\ Untracked
  \/ \E r \in BagToSet(inflight), o \in Outcomes, c \in BOOLEAN, s \in StatsValues :
       handleEndingsAnswerDone(r, o, c, s) /\ Within(MaxInflight) /\ Untracked
  \/ handleEndingsSkip /\ Within(MaxInflight) /\ Called("handleEndingsSkip")
  \/ \E r \in BagToSet(inflight), o \in Outcomes :
       /\ handleEndingsSkipValidated(r, o)
       /\ Called(IF o = "ok" THEN "verbs/validate ok" ELSE "verbs/validate failed")
  \/ \E r \in BagToSet(inflight), o \in Outcomes, s \in StatsValues :
       handleEndingsSkipStats(r, o, s) /\ Within(MaxInflight) /\ Called("other")
  \/ endingsTimeout /\ Untracked

SpecEndings == Init /\ [][NextEndings]_vars

\* Conjugation practice with the order of feedback and timer scheduling recorded: lastOp
\* is "timer" when the last status or timer event scheduled the auto-hide timeout, and
\* "status" when it displayed a status without scheduling one.
NextFeedback ==
  \/ \E p \in {"home", "endings"} : setActivePage(p) /\ Within(MaxInflight) /\ Untracked
  \/ \E r \in BagToSet(inflight), o \in Outcomes, q \in Questions :
       /\ fetchEndingsQuestionDone(r, o, q)
       /\ IF o = "ok" THEN Untracked ELSE Called("status")
  \/ handleEndingsAnswer /\ Within(MaxInflight) /\ Untracked
  \/ \E r \in BagToSet(inflight), o \in Outcomes, c \in BOOLEAN :
       /\ handleEndingsAnswerDone(r, o, c, "s1")
       /\ Within(MaxInflight)
       /\ Called(IF o = "ok" THEN "timer" ELSE "status")
  \/ handleEndingsSkip /\ Within(MaxInflight) /\ Untracked
  \/ \E r \in BagToSet(inflight), o \in Outcomes :
       /\ handleEndingsSkipValidated(r, o)
       /\ IF o = "throw" THEN Untracked ELSE Called("status")
  \/ \E r \in BagToSet(inflight), o \in Outcomes :
       handleEndingsSkipStats(r, o, "s1") /\ Within(MaxInflight) /\ Called("timer")
  \/ endingsTimeout /\ Untracked

SpecFeedback == Init /\ [][NextFeedback]_vars

\* Bound of a step on all requests in flight together.
Together(limit) == BagCardinality(inflight') <= limit

\* The three feedback channels side by side over a pool of one word: skips in translation
\* and pronunciation practice, answers in conjugation practice; lastOp names the timeout
\* that fired last.
NextChannels ==
  \/ \E p \in {"home", "translation", "pronunciation", "endings"} :
       setActivePage(p) /\ Within(MaxInflight) /\ Together(MaxInflight + 1) /\ Called("other")
  \/ \E o \in Outcomes :
       fetchSessionDone(o, "english", <<1>>) /\ Called("other")
  \/ handleSkip /\ Within(MaxInflight) /\ Together(MaxInflight + 1) /\ Called("other")
  \/ \E r \in BagToSet(inflight), o \in Outcomes :
       handleSkipDone(r, o, "s1") /\ Within(MaxInflight) /\ Called("other")
  \/ practiceTimeout /\ Called("practiceTimeout")
  \/ nextPronunciationWord /\ Called("other")
  \/ handlePronunciationSkip /\ Within(MaxInflight) /\ Together(MaxInflight + 1)
       /\ Called("other")
  \/ \E r \in BagToSet(inflight), o \in Outcomes :
       handlePronunciationSkipDone(r, o, "s1") /\ Within(MaxInflight) /\ Called("other")
  \/ pronunciationTimeout /\ Called("pronunciationTimeout")
  \/ \E r \in BagToSet(inflight), o \in Outcomes :
       fetchEndingsQuestionDone(r, o, "q1") /\ Called("other")
  \/ handleEndingsAnswer /\ Within(MaxInflight) /\ Together(MaxInflight + 1)
       /\ Called("other")
  \/ \E r \in BagToSet(inflight), o \in Outcomes :
       /\ handleEndingsAnswerDone(r, o, TRUE, "s1")
       /\ Within(MaxInflight)
       /\ Together(MaxInflight + 1)
       /\ Called("other")
  \/ endingsTimeout /\ Called("endingsTimeout")

SpecChannels == Init /\ [][NextChannels]_vars

\* Translation practice of a learner who clicks Submit or Skip a bounded number of times;
\* a pending timeout eventually fires and a request in flight eventually settles.
NextLive ==
  \/ \E p \in {"home", "translation"} : setActivePage(p) /\ Untracked
  \/ \E o \in Outcomes, w \in ServerPools : fetchSessionDone(o, "english", w) /\ Untracked
  \/ \E v \in Answers : setAnswer(v) /\ Untracked
  \/ handlePracticeSubmit /\ Within(MaxInflight) /\ Counting
  \/ handleSkip /\ Within(MaxInflight) /\ Counting
  \/ \E r \in BagToSet(inflight), o \in Outcomes, c \in BOOLEAN :
       handlePracticeSubmitDone(r, o, c, "s1") /\ Untracked
  \/ \E r \in BagToSet(inflight), o \in Outcomes : handleSkipDone(r, o, "s1") /\ Untracked
  \/ practiceTimeout /\ Untracked

Settling ==
  \E r \in BagToSet(inflight), o \in Outcomes, c \in BOOLEAN :
    \/ handlePracticeSubmitDone(r, o, c, "s1") /\ Untracked
    \/ handleSkipDone(r, o, "s1") /\ Untracked

SpecLive ==
  /\ Init
  /\ [][NextLive]_vars
  /\ WF_vars(practiceTimeout /\ Untracked)
  /\ WF_vars(Settling)

\* Every page in turn, entered from home with a skip, a typed answer or a question behind
\* it; lastOp names the page change.
NextModes ==
  \/ \E p \in Pages : setActivePage(p) /\ Within(MaxInflight) /\ Called("setActivePage")
  \/ \E o \in Outcomes, w \in ServerPools :
       fetchSessionDone(o, "english", w) /\ Called("other")
  \/ setAnswer(<<"a">>) /\ Called("other")
  \/ handleSkip /\ Within(MaxInflight) /\ Called("other")
  \/ \E r \in BagToSet(inflight), o \in Outcomes :
       handleSkipDone(r, o, "s1") /\ Within(MaxInflight) /\ Called("other")
  \/ nextPronunciationWord /\ Called("other")
  \/ \E r \in BagToSet(inflight), o \in Outcomes :
       fetchEndingsQuestionDone(r, o, "q1") /\ Called("other")

SpecModes == Init /\ [][NextModes]_vars

\* The arrays of distinct word ids handed to shuffleArray.
ShuffleInputs ==
  {s \in UNION {[1..n -> 1..MaxItem] : n \in 0..MaxArray} :
     \A i, j \in 1..Len(s) : s[i] = s[j] => i = j}

\* The session has answered with some pool of distinct words; nothing else has happened.
InitShuffle ==
  /\ activePage = "home"
  /\ languageSet = "english"
  /\ wordPool \in ShuffleInputs
  /\ shuffledWords = <<>>
  /\ practiceIndex = 0
  /\ answer = <<>>
  /\ practiceStatus = NoStatus
  /\ lastAnswer = NoAnswer
  /\ stats = NoStats
  /\ manualStatus = NoStatus
  /\ manualEntry = <<>>
  /\ addMode = "words"
  /\ verbEntry = <<>>
  /\ verbStatus = NoStatus
  /\ verbLoading = FALSE
  /\ verbPool = <<>>
  /\ practiceTimer = NoTimer
  /\ pronunciationStatus = NoStatus
  /\ pronunciationIndex = 0
  /\ pronunciationTimer = NoTimer
  /\ isRecording = FALSE
  /\ mediaRecorderRef = NoRecorder
  /\ streams = 0
  /\ endingsQuestion = NoQuestion
  /\ endingsStatus = NoStatus
  /\ endingsStats = NoStats
  /\ endingsTimer = NoTimer
  /\ boot = {"stats", "verbs/stats"}
  /\ inflight = EmptyBag
  /\ lastOp = "fetchSession"
  /\ visited = {}
  /\ runStart = 0
  /\ runCount = 0

\* Entering a word page applies shuffleArray to the pool.
NextShuffle ==
  \E p \in {"home", "translation", "writing", "pronunciation"} :
    setActivePage(p) /\ Called("setActivePage")

SpecShuffle == InitShuffle /\ [][NextShuffle]_vars

\* Skips in translation and pronunciation practice while the session answers and the
\* starter set is loaded from the add page. The skip requests fail with a thrown error, so
\* that a completion moves the cursor and nothing else.
NextDeck ==
  \/ \E p \in {"home", "add", "translation", "pronunciation"} : setActivePage(p) /\ Untracked
  \/ fetchSessionDone("ok", "english", [i \in 1..MaxPool |-> i]) /\ Untracked
  \/ handleLoadInitial /\ Within(MaxInflight) /\ Untracked
  \/ \E r \in BagToSet(inflight) : handleLoadInitialFetched(r, "ok") /\ Untracked
  \/ \E r \in BagToSet(inflight), w \in ServerPools :
       handleLoadInitialSaved(r, "ok", w) /\ Untracked
  \/ handleSkip /\ Within(MaxInflight) /\ Together(MaxInflight + 1) /\ Untracked
  \/ \E r \in BagToSet(inflight) :
       handleSkipDone(r, "throw", "s1") /\ Within(MaxInflight) /\ Untracked
  \/ nextPronunciationWord /\ Untracked
  \/ handlePronunciationSkip /\ Within(MaxInflight) /\ Together(MaxInflight + 1) /\ Untracked
  \/ \E r \in BagToSet(inflight) :
       handlePronunciationSkipDone(r, "throw", "s1") /\ Within(MaxInflight) /\ Untracked

SpecDeck == Init /\ [][NextDeck]_vars

\* How getUserMedia and the creation of the recorder can end: recorder started,
\* getUserMedia rejected, or stream acquired and new MediaRecorder(...) or start() thrown.
RecorderOutcomes == {"ok", "throw", "unsupported"}

\* Record and Stop clicks in pronunciation practice over a pool of one word.
NextRecording ==
  \/ \E p \in {"home", "pronunciation"} : setActivePage(p) /\ Untracked
  \/ fetchSessionDone("ok", "english", <<1>>) /\ Untracked
  \/ startRecording /\ Within(MaxInflight + 1) /\ Untracked
  \/ \E r \in BagToSet(inflight), o \in RecorderOutcomes :
       startRecordingDone(r, o) /\ streams' <= MaxStreams /\ Untracked
  \/ stopRecording /\ Within(MaxInflight + 1) /\ Untracked
  \/ \E r \in BagToSet(inflight) : submitPronunciation(r) /\ Untracked
  \/ \E r \in BagToSet(inflight), o \in Outcomes, c \in BOOLEAN :
       submitPronunciationDone(r, o, c, "s1") /\ Untracked
  \/ pronunciationTimeout /\ Untracked

SpecRecording == Init /\ [][NextRecording]_vars

\* A wrong answer of writing practice is on display, with its hide timeout pending: the
\* learner's text and the correct text of the feedback record are any two texts.
InitDiff ==
  /\ activePage = "writing"
  /\ languageSet = "english"
  /\ wordPool = <<1>>
  /\ shuffledWords = <<1>>
  /\ practiceIndex = 0
  /\ answer = <<>>
  /\ practiceStatus = WrongStatus
  /\ \E u \in Texts, c \in Texts :
       lastAnswer = [userAnswer |-> u, correctAnswer |-> c, wasCorrect |-> FALSE,
                     direction |-> "writing", skipped |-> FALSE]
  /\ stats = "s1"
  /\ manualStatus = NoStatus
  /\ manualEntry = <<>>
  /\ addMode = "words"
  /\ verbEntry = <<>>
  /\ verbStatus = NoStatus
  /\ verbLoading = FALSE
  /\ verbPool = <<>>
  /\ practiceTimer = SetTimer(NoTimer)
  /\ pronunciationStatus = NoStatus
  /\ pronunciationIndex = 0
  /\ pronunciationTimer = NoTimer
  /\ isRecording = FALSE
  /\ mediaRecorderRef = NoRecorder
  /\ streams = 0
  /\ endingsQuestion = NoQuestion
  /\ endingsStatus = NoStatus
  /\ endingsStats = NoStats
  /\ endingsTimer = NoTimer
  /\ boot = {"verbs/stats"}
  /\ inflight = EmptyBag
  /\ lastOp = "handlePracticeSubmit"
  /\ visited = {}
  /\ runStart = 0
  /\ runCount = 0

\* The answer details stay on display until the timeout fires or the page is left.
NextDiff ==
  \/ practiceTimeout /\ Called("practiceTimeout")
  \/ \E p \in {"home", "writing"} : setActivePage(p) /\ Called("setActivePage")

SpecDiff == InitDiff /\ [][NextDiff]_vars

\* Answers in translation and writing practice over a pool of one word, scored either
\* way by the server.
NextScoring ==
  \/ \E p \in {"home", "translation", "writing"} : setActivePage(p) /\ Untracked
  \/ fetchSessionDone("ok", "english", <<1>>) /\ Untracked
  \/ \E v \in Answers : setAnswer(v) /\ Untracked
  \/ handlePracticeSubmit /\ Within(MaxInflight) /\ Untracked
  \/ \E r \in BagToSet(inflight), o \in Outcomes, c \in BOOLEAN :
       handlePracticeSubmitDone(r, o, c, "s1") /\ Within(MaxInflight) /\ Untracked
  \/ practiceTimeout /\ Untracked

SpecScoring == Init /\ [][NextScoring]_vars

\* Submits and skips in translation practice and answers and skips in conjugation
\* practice over a pool of one word, with every outcome of every request.
NextRetry ==
  \/ \E p \in {"home", "translation", "endings"} :
       setActivePage(p) /\ Within(MaxInflight) /\ Together(MaxInflight) /\ Untracked
  \/ fetchSessionDone("ok", "english", <<1>>) /\ Untracked
  \/ setAnswer(<<"a">>) /\ Untracked
  \/ handlePracticeSubmit /\ Within(MaxInflight) /\ Together(MaxInflight) /\ Untracked
  \/ \E r \in BagToSet(inflight), o \in Outcomes :
       handlePracticeSubmitDone(r, o, TRUE, "s1") /\ Within(MaxInflight) /\ Untracked
  \/ handleSkip /\ Within(MaxInflight) /\ Together(MaxInflight) /\ Untracked
  \/ \E r \in BagToSet(inflight), o \in Outcomes :
       handleSkipDone(r, o, "s1") /\ Within(MaxInflight) /\ Untracked
  \/ \E r \in BagToSet(inflight), o \in Outcomes :
       fetchEndingsQuestionDone(r, o, "q1") /\ Untracked
  \/ handleEndingsAnswer /\ Within(MaxInflight) /\ Together(MaxInflight) /\ Untracked
  \/ \E r \in BagToSet(inflight), o \in Outcomes :
       /\ handleEndingsAnswerDone(r, o, TRUE, "s1")
       /\ Within(MaxInflight)
       /\ Together(MaxInflight)
       /\ Untracked
  \/ handleEndingsSkip /\ Within(MaxInflight) /\ Together(MaxInflight) /\ Untracked
  \/ \E r \in BagToSet(inflight), o \in Outcomes :
       handleEndingsSkipValidated(r, o) /\ Untracked
  \/ \E r \in BagToSet(inflight), o \in Outcomes :
       /\ handleEndingsSkipStats(r, o, "s1")
       /\ Within(MaxInflight)
       /\ Together(MaxInflight)
       /\ Untracked

SpecRetry == Init /\ [][NextRetry]_vars

\* Scored submissions over a pool of one word: submits and skips in translation practice,
\* recordings and skips in pronunciation practice, each response carrying its statistics.
NextStats ==
  \/ \E p \in {"home", "translation", "pronunciation"} : setActivePage(p) /\ Untracked
  \/ fetchSessionDone("ok", "english", <<1>>) /\ Untracked
  \/ \E s \in StatsValues : fetchStatsDone("ok", s) /\ Untracked
  \/ setAnswer(<<"a">>) /\ Untracked
  \/ handlePracticeSubmit /\ Within(MaxInflight) /\ Together(MaxInflight) /\ Untracked
  \/ \E r \in BagToSet(inflight), o \in Outcomes, s \in StatsValues :
       handlePracticeSubmitDone(r, o, TRUE, s) /\ Within(MaxInflight) /\ Untracked
  \/ handleSkip /\ Within(MaxInflight) /\ Together(MaxInflight) /\ Untracked
  \/ \E r \in BagToSet(inflight), s \in StatsValues :
       handleSkipDone(r, "ok", s) /\ Within(MaxInflight) /\ Untracked
  \/ startRecording /\ Within(MaxInflight) /\ Together(MaxInflight) /\ Untracked
  \/ \E r \in BagToSet(inflight) :
       startRecordingDone(r, "ok") /\ streams' <= MaxStreams /\ Untracked
  \/ stopRecording /\ Within(MaxInflight) /\ Together(MaxInflight) /\ Untracked
  \/ \E r \in BagToSet(inflight) : submitPronunciation(r) /\ Untracked
  \/ \E r \in BagToSet(inflight), s \in StatsValues :
       submitPronunciationDone(r, "ok", TRUE, s) /\ Within(MaxInflight) /\ Untracked
  \/ handlePronunciationSkip /\ Within(MaxInflight) /\ Together(MaxInflight) /\ Untracked
  \/ \E r \in BagToSet(inflight), s \in StatsValues :
       handlePronunciationSkipDone(r, "ok", s) /\ Within(MaxInflight) /\ Untracked
  \/ practiceTimeout /\ Untracked
  \/ pronunciationTimeout /\ Untracked

SpecStats == Init /\ [][NextStats]_vars

\* The word entry of the add page: single and bulk entries with every answer of the
\* server, one handler in flight at a time.
NextManual ==
  \/ \E p \in {"home", "add"} : setActivePage(p) /\ Called("other")
  \/ \E m \in {"words", "verbs"} : setAddMode(m) /\ Called("other")
  \/ \E v \in Entries : setManualEntry(v) /\ Called("other")
  \/ handleManualSubmit /\ Together(MaxInflight) /\ Called("handleManualSubmit")
  \/ \E r \in BagToSet(inflight), o \in Outcomes, found \in BOOLEAN :
       /\ handleManualSubmitChecked(r, o, found)
       /\ Called(IF o # "ok" THEN "words/check failed"
                 ELSE IF found THEN "words/check found" ELSE "words/check not found")
  \/ \E r \in BagToSet(inflight), o \in Outcomes, w \in ServerPools :
       handleManualSubmitSaved(r, o, w) /\ Called("other")
  \/ \E r \in BagToSet(inflight), o \in Outcomes, c \in BulkPayloads :
       handleManualSubmitBulkChecked(r, o, c) /\ Called("other")
  \/ \E r \in BagToSet(inflight), o \in Outcomes, w \in ServerPools :
       handleManualSubmitBulkRefreshed(r, o, "english", w) /\ Called("other")

SpecManual == Init /\ [][NextManual]_vars

\* The verb entry of the add page with every answer of the server.
NextVerbs ==
  \/ \E p \in {"home", "add"} : setActivePage(p) /\ Called("other")
  \/ \E m \in {"words", "verbs"} : setAddMode(m) /\ Called("other")
  \/ \E o \in Outcomes, v \in VerbPools : fetchVerbSessionDone(o, v) /\ Called("other")
  \/ \E v \in Entries : setVerbEntry(v) /\ Called("other")
  \/ handleVerbSubmit /\ Called("handleVerbSubmit")
  \/ \E r \in BagToSet(inflight), o \in Outcomes, c \in VerbPayloads :
       handleVerbSubmitAdded(r, o, c) /\ Called("other")
  \/ \E r \in BagToSet(inflight), o \in Outcomes :
       handleVerbSubmitSessioned(r, o) /\ Called("other")
  \/ \E r \in BagToSet(inflight), o \in Outcomes, v \in VerbPools :
       handleVerbSubmitRefreshed(r, o, v) /\ Called("other")

SpecVerbs == Init /\ [][NextVerbs]_vars

\* A request of handleVerbSubmit settles: the browser resolves or rejects every fetch.
VerbSettling ==
  \E r \in BagToSet(inflight), o \in Outcomes :
    \/ \E c \in VerbPayloads : handleVerbSubmitAdded(r, o, c) /\ Called("other")
    \/ handleVerbSubmitSessioned(r, o) /\ Called("other")
    \/ \E v \in VerbPools : handleVerbSubmitRefreshed(r, o, v) /\ Called("other")

\* The verb entry with requests that do not stay pending for ever.
SpecVerbsLive ==
  /\ Init
  /\ [][NextVerbs]_vars
  /\ WF_vars(VerbSettling)

\* Both entries of the add page with a server that fails every request.
NextEntries ==
  \/ \E p \in {"home", "add"} : setActivePage(p) /\ Called("other")
  \/ \E m \in {"words", "verbs"} : setAddMode(m) /\ Called("other")
  \/ \E v \in Entries : setManualEntry(v) /\ Called("other")
  \/ handleManualSubmit /\ Together(MaxInflight) /\ Called("handleManualSubmit")
  \/ \E r \in BagToSet(inflight) :
       handleManualSubmitChecked(r, "throw", FALSE) /\ Called("other")
  \/ \E r \in BagToSet(inflight), c \in BulkPayloads :
       handleManualSubmitBulkChecked(r, "status", c) /\ Called("other")
  \/ \E v \in Entries : setVerbEntry(v) /\ Called("other")
  \/ handleVerbSubmit /\ Together(MaxInflight) /\ Called("handleVerbSubmit")
  \/ \E r \in BagToSet(inflight), c \in VerbPayloads :
       handleVerbSubmitAdded(r, "throw", c) /\ Called("other")

SpecEntries == Init /\ [][NextEntries]_vars

\* Recordings over a full pool while the learner moves on to the next word or leaves the
\* page; the scoring request always fails.
NextTake ==
  \/ \E p \in {"home", "pronunciation"} : setActivePage(p) /\ Called("other")
  \/ fetchSessionDone("ok", "english", [i \in 1..MaxPool |-> i]) /\ Called("other")
  \/ startRecording /\ Within(MaxInflight) /\ Together(MaxInflight) /\ Called("other")
  \/ \E r \in BagToSet(inflight) :
       startRecordingDone(r, "ok") /\ streams' <= MaxStreams /\ Called("other")
  \/ stopRecording /\ Within(MaxInflight) /\ Together(MaxInflight) /\ Called("other")
  \/ \E r \in BagToSet(inflight) : submitPronunciation(r) /\ Called("submitPronunciation")
  \/ \E r \in BagToSet(inflight) :
       submitPronunciationDone(r, "throw", FALSE, "s1") /\ Called("other")
  \/ nextPronunciationWord /\ Called("other")

SpecTake == Init /\ [][NextTake]_vars

\* The pronunciation cursor: recordings, "Next word" and skips while the starter set
\* replaces the pool.  lastOp tells a step that runs the mode effect ("effect"), one that
\* ends a scoring ("scored") and one of "Next word" or of the end of a skip ("advance").
NextCursor ==
  \/ \E p \in {"home", "add", "pronunciation"} : setActivePage(p) /\ Called("effect")
  \/ fetchSessionDone("ok", "english", [i \in 1..MaxPool |-> i]) /\ Called("effect")
  \/ handleLoadInitial /\ Within(MaxInflight) /\ Called("other")
  \/ \E r \in BagToSet(inflight) : handleLoadInitialFetched(r, "ok") /\ Called("other")
  \/ \E r \in BagToSet(inflight), w \in ServerPools :
       handleLoadInitialSaved(r, "ok", w) /\ Called("effect")
  \/ startRecording /\ Within(MaxInflight) /\ Called("other")
  \/ \E r \in BagToSet(inflight) :
       startRecordingDone(r, "ok") /\ streams' <= MaxStreams /\ Called("other")
  \/ stopRecording /\ Within(MaxInflight) /\ Called("other")
  \/ \E r \in BagToSet(inflight) : submitPronunciation(r) /\ Called("other")
  \/ \E r \in BagToSet(inflight), o \in {"ok", "throw"} :
       submitPronunciationDone(r, o, TRUE, "s1") /\ Called("scored")
  \/ nextPronunciationWord /\ Called("advance")
  \/ handlePronunciationSkip /\ Within(MaxInflight) /\ Called("other")
  \/ \E r \in BagToSet(inflight), o \in {"ok", "throw"} :
       handlePronunciationSkipDone(r, o, "s1") /\ Called("advance")

SpecCursor == Init /\ [][NextCursor]_vars

\* lastOp of a call of handleLanguageChange(value).
LanguageOp(value) ==
  IF value = "english" THEN "handleLanguageChange(english)"
  ELSE "handleLanguageChange(ukrainian)"

\* The language select of the home page between visits of the add and translation pages,
\* with every outcome of the PUT and both languages of the session fetch of the mount.
NextLanguage ==
  \/ \E p \in {"home", "add", "translation"} : setActivePage(p) /\ Called("other")
  \/ \E o \in Outcomes, l \in Languages : fetchSessionDone(o, l, <<1>>) /\ Called("other")
  \/ \E v \in Languages :
       handleLanguageChange(v) /\ Together(MaxInflight) /\ Called(LanguageOp(v))
  \/ \E r \in BagToSet(inflight), o \in Outcomes :
       /\ handleLanguageChangeDone(r, o)
       /\ Called(IF o = "ok" THEN "PUT answered" ELSE "PUT failed")
  \/ handleLoadInitial /\ Together(MaxInflight) /\ Called("other")
  \/ \E r \in BagToSet(inflight), o \in {"ok", "throw"} :
       handleLoadInitialFetched(r, o) /\ Called("other")
  \/ \E r \in BagToSet(inflight), o \in {"ok", "throw"} :
       handleLoadInitialSaved(r, o, <<1>>) /\ Called("other")

SpecLanguage == Init /\ [][NextLanguage]_vars

(* ------------------------------- claims -------------------------------- *)

\* C1: while an item is displayed, every successful completion of a submit leaves the
\* cursor at (previous cursor + 1) modulo the length of the pool, and the answer input
\* empty.
C1_SubmitAdvancesModuloPool ==
  [][\A r \in BagToSet(inflight), c \in BOOLEAN :
       (handlePracticeSubmitDone(r, "ok", c, "s1") /\ currentWord # NoWord)
         => /\ practiceIndex' = (practiceIndex + 1) % Len(shuffledWords)
            /\ answer' = <<>>]_vars

C4_FailureStillAdvancesModuloPool ==
  [][\A r \in BagToSet(inflight), o \in {"status", "throw"} :
       ((handlePracticeSubmitDone(r, o, TRUE, "s1") \/ handleSkipDone(r, o, "s1"))
          /\ currentWord # NoWord)
         => /\ practiceStatus' \in {SubmitFailedStatus, SkipFailedStatus}
            /\ practiceIndex' = (practiceIndex + 1) % Len(shuffledWords)
            /\ answer' = <<>>]_vars

\* C5: when the verbs/validate request of a conjugation skip has failed, the rest of the
\* skip leaves the statistics on display (stats, endingsStats) as they were.
C5_FailedSkipKeepsStatistics ==
  [][(/\ lastOp = "verbs/validate failed"
      /\ \E r \in BagToSet(inflight), o \in Outcomes, s \in StatsValues :
           handleEndingsSkipStats(r, o, s))
       => /\ endingsStats' = endingsStats
          /\ stats' = stats]_vars

\* C6, as stated: every completion of a skip leaves lastAnswer with skipped = true and
\* wasCorrect = false, and the view renders no spelling diff for a skipped record.
C6_SkipAlwaysMarksSkipped ==
  [][\A r \in BagToSet(inflight), o \in Outcomes :
       handleSkipDone(r, o, "s1")
         => /\ lastAnswer'.skipped
            /\ ~lastAnswer'.wasCorrect
            /\ ~spellingDiffRendered']_vars

\* C6, amended: a successful completion of a skip leaves lastAnswer with skipped = true
\* and wasCorrect = false, a failed one leaves lastAnswer as it was, and the view never
\* renders the spelling diff for a record whose skipped flag is true.
C6_SuccessfulSkipMarksSkipped ==
  /\ [][\A r \in BagToSet(inflight) :
          /\ handleSkipDone(r, "ok", "s1")
               => lastAnswer'.skipped /\ ~lastAnswer'.wasCorrect
          /\ \A o \in {"status", "throw"} :
               handleSkipDone(r, o, "s1") => lastAnswer' = lastAnswer]_vars
  /\ [](lastAnswer.skipped => ~spellingDiffRendered)

\* C6: a skip in writing practice has completed and its record is on display.
C6_Witness ==
  /\ lastAnswer.skipped
  /\ lastAnswer.direction = "writing"
  /\ practiceStatus = SkippedStatus

\* C7: after as many advances in a row as the pool is long, with no run of the mode-entry
\* effect in between, the cursor is back where the run started.
C7_AdvancesCycle ==
  (Len(shuffledWords) > 0 /\ runCount = Len(shuffledWords)) => practiceIndex = runStart

\* C7: a pool of two or more items has been passed through once.
C7_Witness ==
  /\ Len(shuffledWords) >= 2
  /\ runCount = Len(shuffledWords)
  /\ practiceIndex = runStart

\* C8: within one entry into a mode, a submit or skip request is issued for an item that
\* already had one only after every item of the pool has had one.
C8_VisitsAllBeforeRepeat ==
  [][((handlePracticeSubmit \/ handleSkip) /\ inflight' # inflight /\ currentWord \in visited)
       => visited = Range(shuffledWords)]_vars

\* C9: a submit or skip response that arrives when the learner is no longer in the mode
\* it was issued in sets neither practiceStatus nor lastAnswer.
C9_LateResponseDiscarded ==
  [][\A r \in BagToSet(inflight), o \in Outcomes, c \in BOOLEAN :
       ((handlePracticeSubmitDone(r, o, c, "s1") \/ handleSkipDone(r, o, "s1"))
          /\ r.direction # practiceDirection)
         => /\ practiceStatus' = practiceStatus
            /\ lastAnswer' = lastAnswer]_vars

\* C10: the completion of a submit or skip issued in another mode does not move the
\* cursor of the word-practice mode the learner has entered since.
C10_LateResponseKeepsCursor ==
  [][\A r \in BagToSet(inflight), o \in Outcomes, c \in BOOLEAN :
       ((handlePracticeSubmitDone(r, o, c, "s1") \/ handleSkipDone(r, o, "s1"))
          /\ practiceDirection # "none"
          /\ r.direction # practiceDirection)
         => practiceIndex' = practiceIndex]_vars

\* C11: a conjugation answer's response that arrives while a question other than the one
\* it was issued for is on display changes neither endingsStatus nor the question: it
\* issues no question fetch.
C11_StaleValidationIgnored ==
  [][\A r \in BagToSet(inflight), o \in Outcomes, c \in BOOLEAN, s \in StatsValues :
       (/\ handleEndingsAnswerDone(r, o, c, s)
        /\ endingsQuestion # NoQuestion
        /\ r.question # endingsQuestion)
         => /\ endingsStatus' = endingsStatus
            /\ inflight' = Retire(inflight, r)]_vars

\* C12: at any time at most one submit/skip request is in flight for the same item.
C12_OneRequestPerItem ==
  \A r \in PracticeInflight(inflight) :
    /\ CopiesIn(r, inflight) = 1
    /\ \A q \in PracticeInflight(inflight) : q.word = r.word => q = r

\* C13: on the conjugation channel, an auto-hide timeout that fires while a status is on
\* display was scheduled with or after that status: no status was displayed after the
\* timeout was scheduled.
C13_TimerNeverClearsNewerStatus ==
  [][(endingsTimeout /\ endingsStatus # NoStatus) => lastOp = "timer"]_vars

\* C14: the firing of the word-practice timeout changes neither pronunciationStatus nor
\* endingsStatus, the pronunciation timeout changes only pronunciationStatus and the
\* conjugation timeout only endingsStatus among the feedback; and no step cancels,
\* schedules or fires the timeouts of two channels.
C14_TimersIndependent ==
  [][/\ practiceTimeout
          => pronunciationStatus' = pronunciationStatus /\ endingsStatus' = endingsStatus
     /\ pronunciationTimeout
          => /\ practiceStatus' = practiceStatus
             /\ lastAnswer' = lastAnswer
             /\ endingsStatus' = endingsStatus
     /\ endingsTimeout
          => /\ practiceStatus' = practiceStatus
             /\ lastAnswer' = lastAnswer
             /\ pronunciationStatus' = pronunciationStatus
     /\ practiceTimer' # practiceTimer
          => pronunciationTimer' = pronunciationTimer /\ endingsTimer' = endingsTimer
     /\ pronunciationTimer' # pronunciationTimer
          => practiceTimer' = practiceTimer /\ endingsTimer' = endingsTimer
     /\ endingsTimer' # endingsTimer
          => practiceTimer' = practiceTimer /\ pronunciationTimer' = pronunciationTimer]_vars

\* C14: the word-practice timeout has fired while conjugation feedback was on display
\* with its own timeout pending.
C14_Witness ==
  /\ lastOp = "practiceTimeout"
  /\ endingsStatus # NoStatus
  /\ endingsTimer.live

\* C15: a Feedback Record on display is eventually cleared (by its auto-hide timeout or
\* by a mode change).
C15_FeedbackEventuallyCleared == (lastAnswer # NoAnswer) ~> (lastAnswer = NoAnswer)

\* C16: when the validate request of a conjugation answer or skip fails (non-success
\* status or thrown error), an error status is on display afterwards and a timeout is
\* pending that will clear it.
C16_FailureShowsExpiringStatus ==
  [][\A r \in BagToSet(inflight), o \in {"status", "throw"} :
       (handleEndingsAnswerDone(r, o, TRUE, "s1") \/ handleEndingsSkipValidated(r, o))
         => /\ endingsStatus'.type = "error"
            /\ endingsTimer'.live]_vars

\* Number of positions of seq that hold x.
Occurrences(seq, x) == Cardinality({i \in 1..Len(seq) : seq[i] = x})

\* a and b hold the same elements the same number of times, and have the same length.
SameMultiset(a, b) ==
  /\ Len(a) = Len(b)
  /\ \A x \in Range(a) \cup Range(b) : Occurrences(a, x) = Occurrences(b, x)

\* C17: a change of page leaves both cursors at 0, the answer empty, the practice,
\* pronunciation and conjugation statuses and the feedback record cleared; entering
\* translation, writing or pronunciation leaves a permutation of the pool as the shuffled
\* order, and entering conjugation practice issues one more question request.
C17_ModeSwitchResets ==
  [][\A p \in Pages :
       setActivePage(p)
         => /\ practiceIndex' = 0
            /\ pronunciationIndex' = 0
            /\ answer' = <<>>
            /\ practiceStatus' = NoStatus
            /\ pronunciationStatus' = NoStatus
            /\ endingsStatus' = NoStatus
            /\ lastAnswer' = NoAnswer
            /\ p \in {"translation", "writing", "pronunciation"}
                 => SameMultiset(shuffledWords', wordPool)
            /\ p = "endings"
                 => CopiesIn(QuestionRequest, inflight')
                      = CopiesIn(QuestionRequest, inflight) + 1]_vars

\* A page was just entered while the hide timeout of an earlier skip is still pending, and
\* the shuffled order is the pool in another order.
C17_Witness ==
  /\ lastOp = "setActivePage"
  /\ activePage = "pronunciation"
  /\ practiceTimer.live
  /\ shuffledWords # wordPool
  /\ practiceIndex = 0

\* C18: while translation, writing or pronunciation practice stays open, the arrival of a
\* session response or of a saved starter set changes neither the shuffled order nor the
\* cursor.
C18_PoolUpdateKeepsDeck ==
  [][\A o \in Outcomes, w \in ServerPools :
       (/\ activePage \in {"translation", "writing", "pronunciation"}
        /\ \/ fetchSessionDone(o, "english", w)
           \/ \E r \in BagToSet(inflight) : handleLoadInitialSaved(r, o, w))
         => /\ shuffledWords' = shuffledWords
            /\ practiceIndex' = practiceIndex]_vars

\* C19: the array stored by a shuffle has the length of the pool and holds each of its
\* elements the same number of times; and for a pool of more than one word, some result
\* shuffleArray can return is in another order than the pool.
C19_ShuffleIsPermutation ==
  activePage \in {"translation", "writing", "pronunciation"}
    => /\ SameMultiset(shuffledWords, wordPool)
       /\ Len(wordPool) > 1 => \E out \in shuffleArray(wordPool) : out # wordPool

\* A pool of three words was shuffled into another order.
C19_Witness ==
  /\ activePage = "writing"
  /\ Len(wordPool) = 3
  /\ shuffledWords # wordPool
  /\ shuffledWords[1] = wordPool[3]

\* C20: whenever the pool is empty, the stored cursor is 0 and neither translation/writing
\* practice nor pronunciation practice has a current word.
C20_EmptyPoolPinsCursor ==
  wordPool = <<>>
    => /\ practiceIndex = 0
       /\ currentWord = NoWord
       /\ currentPronunciationWord = NoWord

\* C21: whenever the pool is not empty, the stored practice cursor and the stored
\* pronunciation cursor are smaller than the length of the pool.
C21_CursorsBelowPoolLength ==
  wordPool # <<>>
    => /\ practiceIndex < Len(wordPool)
       /\ pronunciationIndex < Len(wordPool)

\* C22: in translation and writing practice with a non-empty shuffled pool the current
\* word is an element of the shuffled pool, in pronunciation practice likewise, and in
\* every other case there is no current word; the current word is never undefined.
C22_CurrentItemInPool ==
  /\ currentWord # Undefined
  /\ currentPronunciationWord # Undefined
  /\ IF practiceDirection # "none" /\ shuffledWords # <<>>
     THEN currentWord \in Range(shuffledWords)
     ELSE currentWord = NoWord
  /\ IF activePage = "pronunciation" /\ shuffledWords # <<>>
     THEN currentPronunciationWord \in Range(shuffledWords)
     ELSE currentPronunciationWord = NoWord

\* The stored cursor is past the end of the shuffled pool and a word is displayed.
C22_Witness ==
  /\ activePage = "translation"
  /\ shuffledWords # <<>>
  /\ practiceIndex >= Len(shuffledWords)
  /\ currentWord \in Range(shuffledWords)

\* C23: at any time at most one capture stream acquired by startRecording has tracks that
\* have not been stopped.
C23_OneLiveStream == streams <= 1

\* C24: when no recording is in progress (isRecording is false and no stop event of a
\* recorder is waiting to be handled), no capture stream has tracks that are still live.
C24_StreamsReleased ==
  (~isRecording /\ CountOf(inflight, {"onstop"}) = 0) => streams = 0

\* C25: the step in which a conjugation answer is validated stores the statistics of the
\* response and issues one more question request, with the hide timeout scheduled in the
\* same step and still pending; and the arrival of a question changes the question
\* whatever the state of that timeout, which it leaves alone.
C25_NextQuestionBeforeTimer ==
  [][/\ \A r \in BagToSet(inflight), c \in BOOLEAN, s \in StatsValues :
          handleEndingsAnswerDone(r, "ok", c, s)
            => /\ endingsStats' = s
               /\ CountOf(inflight', {"verbs/question"})
                    = CountOf(inflight, {"verbs/question"}) + 1
               /\ endingsTimer'.live
     /\ \A r \in BagToSet(inflight), q \in Questions :
          fetchEndingsQuestionDone(r, "ok", q)
            => /\ endingsQuestion' = q
               /\ endingsTimer' = endingsTimer]_vars

\* The feedback of a validated answer is on display with its timeout pending, and the
\* question request issued with it has already been answered.
C25_Witness ==
  /\ endingsStatus = EndingsCorrectStatus
  /\ endingsTimer.live
  /\ endingsStats # NoStats
  /\ endingsQuestion # NoQuestion
  /\ CountOf(inflight, {"verbs/question"}) = 0

\* C26: a skip of a displayed conjugation question issues one verbs/validate request for
\* that question; when the request succeeds, the "Skipped" status shown gives the answer
\* of the question on display and a statistics request follows; and when the statistics
\* arrive they are stored and one more question request is issued in the same step.
C26_SkipShowsCurrentAnswer ==
  [][/\ (handleEndingsSkip /\ endingsQuestion # NoQuestion)
          => /\ CountOf(inflight', {"verbs/validate"})
                  = CountOf(inflight, {"verbs/validate"}) + 1
             /\ \E r \in BagToSet(inflight') :
                  /\ r = ValidateRequest("handleEndingsSkip")
                  /\ CopiesIn(r, inflight') = CopiesIn(r, inflight) + 1
     /\ \A r \in BagToSet(inflight) :
          handleEndingsSkipValidated(r, "ok")
            => /\ endingsStatus' = EndingsSkippedStatus
               /\ r.question = endingsQuestion
               /\ CountOf(inflight', {"verbs/stats"})
                    = CountOf(inflight, {"verbs/stats"}) + 1
     /\ \A r \in BagToSet(inflight), s \in StatsValues :
          handleEndingsSkipStats(r, "ok", s)
            => /\ endingsStats' = s
               /\ CountOf(inflight', {"verbs/question"})
                    = CountOf(inflight, {"verbs/question"}) + 1]_vars

\* The marker the diff is to hold for 0-based position i of learner text u against
\* correct text c, letters compared as written below.
ExpectedMarker(u, c, i) ==
  LET same(x, y) == x = y \/ {x, y} = {"k", "K"}
  IN  IF i >= Len(u) THEN [class |-> "char-missing", char |-> c[i + 1], key |-> i]
      ELSE IF i < Len(c) /\ same(u[i + 1], c[i + 1])
           THEN [class |-> "char-correct", char |-> u[i + 1], key |-> i]
           ELSE [class |-> "char-incorrect", char |-> u[i + 1], key |-> i]

\* C27: the diff of the learner text of the feedback record against its correct text holds,
\* for each position below the longer length and in order, a correct marker for a learner
\* character equal to the correct one ignoring case, an incorrect marker for a learner
\* character that differs, and a missing marker carrying the correct character where the
\* learner text has ended; ("kot","kod") gives correct, correct, incorrect.
C27_DiffIsPositional ==
  LET u == lastAnswer.userAnswer
      c == lastAnswer.correctAnswer
      n == IF Len(u) >= Len(c) THEN Len(u) ELSE Len(c)
  IN  /\ renderSpellingDiff(u, c) = [p \in 1..n |-> ExpectedMarker(u, c, p - 1)]
      /\ (u = <<"k", "o", "t">> /\ c = <<"k", "o", "d">>)
           => renderSpellingDiff(u, c)
                = << [class |-> "char-correct", char |-> "k", key |-> 0],
                     [class |-> "char-correct", char |-> "o", key |-> 1],
                     [class |-> "char-incorrect", char |-> "t", key |-> 2] >>

\* The diff of "ko" against "kot" is on display: correct, correct, missing(t).
C27_Witness ==
  /\ spellingDiffRendered
  /\ lastAnswer.userAnswer = <<"k", "o">>
  /\ lastAnswer.correctAnswer = <<"k", "o", "t">>
  /\ renderSpellingDiff(lastAnswer.userAnswer, lastAnswer.correctAnswer)
       = << [class |-> "char-correct", char |-> "k", key |-> 0],
            [class |-> "char-correct", char |-> "o", key |-> 1],
            [class |-> "char-missing", char |-> "t", key |-> 2] >>

ValidationKinds == {"practice/validate", "practice/skip", "verbs/validate"}

C30_StatsFromResponse ==
  [][/\ \A r \in BagToSet(inflight), s \in {"s1", "s2"} :
          (\/ handlePracticeSubmitDone(r, "ok", TRUE, s)
           \/ handleSkipDone(r, "ok", s)
           \/ submitPronunciationDone(r, "ok", TRUE, s)
           \/ handlePronunciationSkipDone(r, "ok", s))
            => stats' = s
     /\ stats' # stats => stats' \in {"s1", "s2"}]_vars

\* The feedback record of an answered skip is on display, and the statistics stored are
\* statistics a response carried.
C30_Witness ==
  /\ stats = "s2"
  /\ lastAnswer # NoAnswer
  /\ lastAnswer.skipped
  /\ activePage = "translation"

(* ------------------------------- C31 ----------------------------------- *)

WhitespaceOnly(s) == \A i \in 1..Len(s) : s[i] = " "

\* C31: a submission of an empty or whitespace-only word entry or verb entry is rejected
\* locally: the call issues no request and sets the fixed error status of its entry.
C31_EmptyEntryRejectedLocally ==
  [][/\ (lastOp' = "handleManualSubmit" /\ WhitespaceOnly(manualEntry))
          => inflight' = inflight /\ manualStatus' = EmptyEntryStatus
     /\ (lastOp' = "handleVerbSubmit" /\ WhitespaceOnly(verbEntry))
          => /\ inflight' = inflight
             /\ verbStatus' = EmptyVerbStatus
             /\ verbLoading' = verbLoading]_vars

\* A verb entry of one space was just rejected, after a word entry of one space was.
C31_Witness ==
  /\ lastOp = "handleVerbSubmit"
  /\ verbEntry = <<" ">>
  /\ verbStatus = EmptyVerbStatus
  /\ manualEntry = <<" ">>
  /\ manualStatus = EmptyEntryStatus
  /\ inflight = EmptyBag

(* ------------------------------- C32 ----------------------------------- *)

\* C32: a words/check response with found = false (or no word) sets the word-not-found
\* status, issues no session/words request and leaves the pool; a thrown error or a
\* non-success status of words/check sets the generic try-again status instead.
C32_NotFoundIsNotAFailure ==
  [][/\ lastOp' = "words/check not found"
          => /\ manualStatus' = WordNotFoundStatus
             /\ CountOf(inflight', {"session/words"}) = CountOf(inflight, {"session/words"})
             /\ wordPool' = wordPool
     /\ lastOp' = "words/check failed"
          => /\ manualStatus' = ManualFailedStatus
             /\ CountOf(inflight', {"session/words"}) = CountOf(inflight, {"session/words"})
             /\ wordPool' = wordPool]_vars

\* A word was just reported as not found while the pool holds a word saved before.
C32_Witness ==
  /\ lastOp = "words/check not found"
  /\ manualStatus = WordNotFoundStatus
  /\ wordPool # <<>>
  /\ inflight = EmptyBag

(* ------------------------------- C33 ----------------------------------- *)

\* C33: on a word-practice page (translation, writing, pronunciation) the shuffled order
\* is a permutation of the pool: the same length and the same words as often.
C33_DeckIsPermutationOfPool ==
  activePage \in WordPages
    => /\ Len(shuffledWords) = Len(wordPool)
       /\ SameMultiset(shuffledWords, wordPool)

\* On the pronunciation page with a full pool in another order than the server's.
C33_Witness ==
  /\ activePage = "pronunciation"
  /\ Len(wordPool) = MaxPool
  /\ shuffledWords # wordPool
  /\ SameMultiset(shuffledWords, wordPool)

(* ------------------------------- C34 ----------------------------------- *)

\* C34: a scoring request issued by submitPronunciation carries the pronunciation word
\* displayed at the moment it is issued.
C34_RecordingScoredForDisplayedWord ==
  [][lastOp' = "submitPronunciation"
       => \A r \in BagToSet(inflight') :
            r.kind = "practice/pronunciation" => r.word = currentPronunciationWord]_vars

(* ------------------------------- C35 ----------------------------------- *)

\* C35: the end of a scoring, successful or failed, leaves the pronunciation cursor; a
\* "Next word" click and the end of a skip store the cursor plus 1 modulo the length of
\* the shuffled pool; and no other step but a run of the mode effect changes the cursor.
C35_OnlySkipAndNextAdvance ==
  [][/\ lastOp' = "scored" => pronunciationIndex' = pronunciationIndex
     /\ (lastOp' = "advance" /\ Len(shuffledWords) > 0)
          => pronunciationIndex' = (pronunciationIndex + 1) % Len(shuffledWords)
     /\ lastOp' \notin {"advance", "effect"}
          => pronunciationIndex' = pronunciationIndex]_vars

(* ------------------------------- C36 ----------------------------------- *)

\* C36: the diff of the learner text against the correct text holds one marker for each
\* position below the longer length, in order, so its length is the longer length; no
\* position carries both an incorrect and a missing marker; and each learner character
\* past the end of the correct text has an incorrect marker carrying it.
C36_OneMarkerPerPosition ==
  LET u == lastAnswer.userAnswer
      c == lastAnswer.correctAnswer
      out == renderSpellingDiff(u, c)
  IN  /\ Len(out) = IF Len(u) >= Len(c) THEN Len(u) ELSE Len(c)
      /\ \A p \in 1..Len(out) : out[p].key = p - 1
      /\ \A p, q \in 1..Len(out) :
           (out[p].class = "char-incorrect" /\ out[q].class = "char-missing")
             => out[p].key # out[q].key
      /\ \A i \in Len(c)..(Len(u) - 1) :
           \E p \in 1..Len(out) :
             out[p] = [class |-> "char-incorrect", char |-> u[i + 1], key |-> i]

\* The diff of "kot" against "k" is on display: correct, incorrect(o), incorrect(t).
C36_Witness ==
  /\ spellingDiffRendered
  /\ lastAnswer.userAnswer = <<"k", "o", "t">>
  /\ lastAnswer.correctAnswer = <<"k">>
  /\ renderSpellingDiff(lastAnswer.userAnswer, lastAnswer.correctAnswer)
       = << [class |-> "char-correct", char |-> "k", key |-> 0],
            [class |-> "char-incorrect", char |-> "o", key |-> 1],
            [class |-> "char-incorrect", char |-> "t", key |-> 2] >>

(* ------------------------------- C37 ----------------------------------- *)

VerbKinds == {"verbs/add", "verbs/session?verb_id", "fetchVerbSession"}

\* C37: verbLoading holds exactly while one handleVerbSubmit awaits a request; the step
\* that resets it leaves the verb entry empty; no handleVerbSubmit is called while it
\* holds; and once set it is reset, with the entry cleared.
C37_VerbLoadingBracketsSubmission ==
  /\ [](verbLoading <=> CountOf(inflight, VerbKinds) = 1)
  /\ [](CountOf(inflight, VerbKinds) <= 1)
  /\ [][/\ (verbLoading /\ ~verbLoading') => verbEntry' = <<>>
        /\ lastOp' = "handleVerbSubmit" => ~verbLoading]_vars
  /\ verbLoading ~> (~verbLoading /\ verbEntry = <<>>)

\* A verb was added: the success status is shown, the entry is cleared and the control
\* is enabled again.
C37_Witness ==
  /\ ~verbLoading
  /\ verbStatus.type = "success"
  /\ verbEntry = <<>>
  /\ verbPool # <<>>
  /\ inflight = EmptyBag

(* ------------------------------- C38 ----------------------------------- *)

\* C38: a call handleLanguageChange(v) stores v as the language set while its PUT is still
\* in flight; the settling of the PUT, answered or failed, leaves the language set and
\* every status as they are.
C38_LanguageChangeIsOptimistic ==
  [][/\ \A v \in Languages :
          lastOp' = LanguageOp(v)
            => /\ languageSet' = v
               /\ CountOf(inflight', {"session/language"})
                    = CountOf(inflight, {"session/language"}) + 1
     /\ lastOp' \in {"PUT answered", "PUT failed"}
          => /\ languageSet' = languageSet
             /\ UNCHANGED <<manualStatus, practiceStatus, pronunciationStatus,
                            endingsStatus, verbStatus>>]_vars

\* The PUT of a change to ukrainian has just failed, with a status on display, and the
\* language set is still ukrainian.
C38_Witness ==
  /\ lastOp = "PUT failed"
  /\ languageSet = "ukrainian"
  /\ manualStatus = StarterLoadedStatus
  /\ inflight = EmptyBag

====
